---- MODULE Spec2Model ----
(***************************************************************************)
(* A model of the langchain-agent repository: the reply parser             *)
(* (llm/ollama.go: parseResponse, findMatchingBrace), the streaming        *)
(* gateway (llm/ollama.go: ChatStream) and the agent loop                  *)
(* (agent/agent.go: New, Run, executeTool, ClearHistory).                  *)
(*                                                                         *)
(* Strings.  A Go string is modelled as a sequence of characters.  A       *)
(* character is a TLA+ string: either one byte that the code looks at      *)
(* ("{", "}", a quote, a backslash, ":", a blank, ...) or a run of bytes   *)
(* that the code never looks into (a word such as "name" or "shell").      *)
(* Words have no blank at either end, no brace, no quote and no backslash, *)
(* so trimming, brace matching and JSON scanning treat a word exactly as   *)
(* they treat each of its bytes.  Indices are Go's: 0-based, -1 for        *)
(* "not found".                                                            *)
(***************************************************************************)
EXTENDS Integers, Sequences, FiniteSets, TLC

\* ------------------------------------------------------------ characters
LB == "{"
RB == "}"
LK == "["
RK == "]"
QT == "\""
BS == "\\"
CL == ":"
CM == ","
SP == " "
NL == "\n"

\* unicode.IsSpace on the characters of the model (strings.TrimSpace's test)
IsSpace(c) == c \in {SP, NL}

\* ------------------------------------------------- package strings (Go)
\* s[lo:hi]
Slice(s, lo, hi) == SubSeq(s, lo + 1, hi)

\* a Go slice expression s[lo:hi] panics unless 0 <= lo <= hi <= len(s)
SliceOK(s, lo, hi) == 0 <= lo /\ lo <= hi /\ hi <= Len(s)

\* strings.Index(s, c) for a one-character needle
Index(s, c) ==
  IF \E k \in 1..Len(s) : s[k] = c
  THEN (CHOOSE k \in 1..Len(s) : s[k] = c /\ \A j \in 1..(k - 1) : s[j] # c) - 1
  ELSE -1

\* strings.Contains(s, sub)
Contains(s, sub) ==
  \E k \in 0..(Len(s) - Len(sub)) : Slice(s, k, k + Len(sub)) = sub

\* strings.TrimSpace(s)
TrimSpace(s) ==
  IF \A k \in 1..Len(s) : IsSpace(s[k])
  THEN << >>
  ELSE LET lo == CHOOSE k \in 1..Len(s) :
                   ~IsSpace(s[k]) /\ \A j \in 1..(k - 1) : IsSpace(s[j])
           hi == CHOOSE k \in 1..Len(s) :
                   ~IsSpace(s[k]) /\ \A j \in (k + 1)..Len(s) : IsSpace(s[j])
       IN SubSeq(s, lo, hi)

\* strings.ToLower, character by character
LowerChar(c) ==
  CASE c = "Answer" -> "answer"
    [] c = "ANSWER" -> "answer"
    [] c = "Final"  -> "final"
    [] c = "Name"   -> "name"
    [] OTHER        -> c

ToLower(s) == [k \in 1..Len(s) |-> LowerChar(s[k])]

\* ------------------------------------------------------ findMatchingBrace
\* the loop without the escape flag: a backslash is a character like any other
RECURSIVE fmbLoopNoEscape(_, _, _, _, _)
fmbLoopNoEscape(s, i, depth, inString, escape) ==
  IF i >= Len(s) THEN -1
  ELSE LET ch == s[i + 1] IN
    IF ch = QT THEN fmbLoopNoEscape(s, i + 1, depth, ~inString, FALSE)
    ELSE IF inString THEN fmbLoopNoEscape(s, i + 1, depth, inString, FALSE)
    ELSE IF ch = LB THEN fmbLoopNoEscape(s, i + 1, depth + 1, inString, FALSE)
    ELSE IF ch = RB
         THEN (IF depth - 1 = 0 THEN i
               ELSE fmbLoopNoEscape(s, i + 1, depth - 1, inString, FALSE))
    ELSE fmbLoopNoEscape(s, i + 1, depth, inString, FALSE)

RECURSIVE fmbLoop(_, _, _, _, _)
\* the loop `for i, ch := range s` with its three locals; i is 0-based
fmbLoop(s, i, depth, inString, escape) ==
  IF i >= Len(s) THEN -1
  ELSE LET ch == s[i + 1] IN
    IF escape THEN fmbLoop(s, i + 1, depth, inString, FALSE)
    ELSE IF ch = BS /\ inString THEN fmbLoop(s, i + 1, depth, inString, TRUE)
    ELSE IF ch = QT THEN fmbLoop(s, i + 1, depth, ~inString, FALSE)
    ELSE IF inString THEN fmbLoop(s, i + 1, depth, inString, FALSE)
    ELSE IF ch = LB THEN fmbLoop(s, i + 1, depth + 1, inString, FALSE)
    ELSE IF ch = RB
         THEN (IF depth - 1 = 0 THEN i
               ELSE fmbLoop(s, i + 1, depth - 1, inString, FALSE))
    ELSE fmbLoop(s, i + 1, depth, inString, FALSE)

\* findMatchingBrace without its string handling: every brace counts
RECURSIVE fmbNoStrings(_, _, _)
fmbNoStrings(s, i, depth) ==
  IF i >= Len(s) THEN -1
  ELSE IF s[i + 1] = LB THEN fmbNoStrings(s, i + 1, depth + 1)
  ELSE IF s[i + 1] = RB
       THEN (IF depth - 1 = 0 THEN i ELSE fmbNoStrings(s, i + 1, depth - 1))
  ELSE fmbNoStrings(s, i + 1, depth)

findMatchingBraceNoStrings(s) ==
  IF Len(s) = 0 \/ s[1] # LB THEN -1 ELSE fmbNoStrings(s, 0, 0)

findMatchingBrace(s) ==
  IF Len(s) = 0 \/ s[1] # LB THEN -1
  ELSE fmbLoop(s, 0, 0, FALSE, FALSE)

\* ------------------------------------------------- encoding/json (Go)
\* Words whose first byte is one of b f n r t /, so that a backslash before
\* them is a valid JSON escape (\n followed by "ame", \t followed by "ool").
EscapableWords == {"name", "tool", "null", "true", "false", "final"}

\* the literals and numbers among the words
JsonNull == "null"
JsonBools == {"true", "false"}
JsonNumbers == {"1", "42"}

\* the position (1-based) of the first non-blank character at or after p
RECURSIVE skipWs(_, _)
skipWs(s, p) == IF p <= Len(s) /\ IsSpace(s[p]) THEN skipWs(s, p + 1) ELSE p

JsonFail == [ok |-> FALSE, next |-> 0, kind |-> "", str |-> << >>, keys |-> {}, mem |-> << >>]

\* the body of a string literal, p just after the opening quote
RECURSIVE scanString(_, _, _)
scanString(s, p, acc) ==
  IF p > Len(s) THEN JsonFail
  ELSE IF s[p] = QT
       THEN [ok |-> TRUE, next |-> p + 1, kind |-> "string", str |-> acc,
             keys |-> {}, mem |-> << >>]
  ELSE IF s[p] = BS
       THEN (IF p + 1 > Len(s) THEN JsonFail
             ELSE IF s[p + 1] \in {QT, BS}
                  THEN scanString(s, p + 2, Append(acc, s[p + 1]))
             ELSE IF s[p + 1] \in EscapableWords
                  THEN scanString(s, p + 2, acc \o <<BS, s[p + 1]>>)
             ELSE JsonFail)
  ELSE IF s[p] = NL THEN JsonFail   \* a raw control character
  ELSE scanString(s, p + 1, Append(acc, s[p]))

\* what a member keeps of its value
Lite(v) == [kind |-> v.kind, str |-> v.str, keys |-> v.keys]

RECURSIVE jsonValue(_, _)
RECURSIVE jsonMembers(_, _, _)
RECURSIVE jsonElems(_, _)

\* the members of an object, p at the first character of a key
jsonMembers(s, p, acc) ==
  IF p > Len(s) \/ s[p] # QT THEN JsonFail
  ELSE LET k == scanString(s, p + 1, << >>) IN
    IF ~k.ok THEN JsonFail
    ELSE LET c == skipWs(s, k.next) IN
      IF c > Len(s) \/ s[c] # CL THEN JsonFail
      ELSE LET v == jsonValue(s, skipWs(s, c + 1)) IN
        IF ~v.ok THEN JsonFail
        ELSE LET e   == skipWs(s, v.next)
                 all == Append(acc, [key |-> k.str, val |-> Lite(v)])
             IN IF e > Len(s) THEN JsonFail
                ELSE IF s[e] = RB
                     THEN [ok |-> TRUE, next |-> e + 1, kind |-> "object",
                           str |-> << >>,
                           keys |-> {all[j].key : j \in 1..Len(all)},
                           mem |-> all]
                ELSE IF s[e] = CM THEN jsonMembers(s, skipWs(s, e + 1), all)
                ELSE JsonFail

\* the elements of an array, p at the first character of an element
jsonElems(s, p) ==
  LET v == jsonValue(s, p) IN
    IF ~v.ok THEN JsonFail
    ELSE LET e == skipWs(s, v.next) IN
      IF e > Len(s) THEN JsonFail
      ELSE IF s[e] = RK
           THEN [ok |-> TRUE, next |-> e + 1, kind |-> "array", str |-> << >>,
                 keys |-> {}, mem |-> << >>]
      ELSE IF s[e] = CM THEN jsonElems(s, skipWs(s, e + 1))
      ELSE JsonFail

\* one JSON value, p at its first character
jsonValue(s, p) ==
  IF p > Len(s) THEN JsonFail
  ELSE IF s[p] = QT THEN scanString(s, p + 1, << >>)
  ELSE IF s[p] = LB
       THEN LET q == skipWs(s, p + 1) IN
            IF q <= Len(s) /\ s[q] = RB
            THEN [ok |-> TRUE, next |-> q + 1, kind |-> "object", str |-> << >>,
                  keys |-> {}, mem |-> << >>]
            ELSE jsonMembers(s, q, << >>)
  ELSE IF s[p] = LK
       THEN LET q == skipWs(s, p + 1) IN
            IF q <= Len(s) /\ s[q] = RK
            THEN [ok |-> TRUE, next |-> q + 1, kind |-> "array", str |-> << >>,
                  keys |-> {}, mem |-> << >>]
            ELSE jsonElems(s, q)
  ELSE IF s[p] = JsonNull
       THEN [ok |-> TRUE, next |-> p + 1, kind |-> "null", str |-> << >>,
             keys |-> {}, mem |-> << >>]
  ELSE IF s[p] \in JsonBools
       THEN [ok |-> TRUE, next |-> p + 1, kind |-> "bool", str |-> << >>,
             keys |-> {}, mem |-> << >>]
  ELSE IF s[p] \in JsonNumbers
       THEN [ok |-> TRUE, next |-> p + 1, kind |-> "number", str |-> << >>,
             keys |-> {}, mem |-> << >>]
  ELSE JsonFail

\* json.checkValid: one value, blanks around it, nothing else
jsonDocument(s) ==
  LET v == jsonValue(s, skipWs(s, 1)) IN
    IF v.ok /\ skipWs(s, v.next) > Len(s) THEN v ELSE JsonFail

\* a Go map[string]any: nil, or a map with the given keys
NilMap == [nil |-> TRUE, keys |-> {}]

\* the anonymous struct of parseResponse before decoding, plus Unmarshal's error
ZeroToolCall ==
  [Name |-> << >>, Tool |-> << >>, Parameters |-> NilMap, Params |-> NilMap,
   err |-> FALSE]

\* decoding one value into a string field
SetString(tc, f, v) ==
  IF v.kind = "string" THEN [tc EXCEPT ![f] = v.str]
  ELSE IF v.kind = "null" THEN tc
  ELSE [tc EXCEPT !.err = TRUE]

\* decoding one value into a map[string]any field
SetMap(tc, f, v) ==
  IF v.kind = "object"
  THEN [tc EXCEPT ![f] = [nil |-> FALSE, keys |-> tc[f].keys \cup v.keys]]
  ELSE IF v.kind = "null" THEN [tc EXCEPT ![f] = NilMap]
  ELSE [tc EXCEPT !.err = TRUE]

\* decoding one member: the field is found by its json tag, case-folded
SetField(tc, m) ==
  LET k == ToLower(m.key) IN
    IF k = <<"name">> THEN SetString(tc, "Name", m.val)
    ELSE IF k = <<"tool">> THEN SetString(tc, "Tool", m.val)
    ELSE IF k = <<"parameters">> THEN SetMap(tc, "Parameters", m.val)
    ELSE IF k = <<"params">> THEN SetMap(tc, "Params", m.val)
    ELSE tc

RECURSIVE decodeMembers(_, _, _)
decodeMembers(tc, mem, j) ==
  IF j > Len(mem) THEN tc ELSE decodeMembers(SetField(tc, mem[j]), mem, j + 1)

\* json.Unmarshal([]byte(jsonStr), &toolCall)
Unmarshal(jsonStr) ==
  LET v == jsonDocument(jsonStr) IN
    IF ~v.ok THEN [ZeroToolCall EXCEPT !.err = TRUE]
    ELSE IF v.kind = "object" THEN decodeMembers(ZeroToolCall, v.mem, 1)
    ELSE IF v.kind = "null" THEN ZeroToolCall
    ELSE [ZeroToolCall EXCEPT !.err = TRUE]

\* ---------------------------------------------------------- parseResponse
\* llm.Response
Response(content, toolCalls, isFinish) ==
  [Content |-> content, ToolCalls |-> toolCalls, IsFinish |-> isFinish]

HasAnswerMarkerAny(lowerContent) == TRUE

\* the markers of a final answer; "final answer:" contains "answer:"
HasAnswerMarker(lowerContent) ==
  \/ Contains(lowerContent, <<"final", SP, "answer", CL>>)
  \/ Contains(lowerContent, <<"answer", CL>>)

noToolCallFinal(orig, content) == Response(orig, << >>, TRUE)

\* the reply when no tool call was recognised (lines 206-214); content is trimmed
noToolCall(orig, content) ==
  Response(orig, << >>,
           HasAnswerMarker(ToLower(content)) \/ ~Contains(content, <<LB>>))

\* the three slice expressions of parseResponse are in range
parseSlicesOK(orig) ==
  LET content == TrimSpace(orig)
      idx     == Index(content, LB)
  IN idx # -1 =>
       /\ SliceOK(content, idx, Len(content))
       /\ LET jsonPart == Slice(content, idx, Len(content))
              endIdx   == findMatchingBrace(jsonPart)
          IN endIdx # -1 =>
               /\ SliceOK(jsonPart, 0, endIdx + 1)
               /\ SliceOK(content, 0, idx + endIdx + 1)

\* the name taken from `tool` first
normNameToolFirst(n, t) == IF t = << >> THEN n ELSE t

\* lines 184-187: name, or tool when name is empty
normName(n, t) == IF n = << >> THEN t ELSE n

\* the arguments taken from `params` first
normParamsSwapped(p1, p2) == IF p2.nil THEN p1 ELSE p2

\* lines 188-191: parameters, or params when parameters is nil
normParams(p1, p2) == IF p1.nil THEN p2 ELSE p1

\* isToolCall without the test of line 192
isToolCallAnyName(err, name) == ~err

\* lines 183 and 192: the object decoded without error and it names a tool
isToolCall(err, name) == ~err /\ name # << >>

parseResponse(orig) ==
  LET content == TrimSpace(orig)
      idx     == Index(content, LB)
  IN IF idx = -1 THEN noToolCall(orig, content)
     ELSE LET jsonPart == Slice(content, idx, Len(content))
              endIdx   == findMatchingBrace(jsonPart)
          IN IF endIdx = -1 THEN noToolCall(orig, content)
             ELSE LET jsonStr  == Slice(jsonPart, 0, endIdx + 1)
                      toolCall == Unmarshal(jsonStr)
                      name     == normName(toolCall.Name, toolCall.Tool)
                      params   == normParams(toolCall.Parameters, toolCall.Params)
                  IN IF isToolCall(toolCall.err, name)
                     THEN Response(TrimSpace(Slice(content, 0, idx + endIdx + 1)),
                                   <<[Name |-> name, Params |-> params]>>, FALSE)
                     ELSE noToolCall(orig, content)

\* ======================================================================
\* State
\* ======================================================================
VARIABLES
  \* --- the parser called on one reply (Client.parseResponse)
  pPc,        \* "input": not yet parsed; "parsed": parseResponse returned
  pBuilt,     \* how the reply text was put together: [pre, body, post]
  pInput,     \* content, the argument of parseResponse
  pReply,     \* the *Response it returned
  pPanic      \* a slice expression of parseResponse was out of range

parseVars == <<pPc, pBuilt, pInput, pReply, pPanic>>

VARIABLES
  \* --- one call of Client.ChatStream
  sPc,        \* "streaming": GenerateContent is running; "done"; "failed"
  buf,        \* var buf strings.Builder
  streaming,  \* streaming := false
  jsonMode,   \* jsonMode := false
  sChunks,    \* the chunks the backend has delivered so far, in order
  sCalls,     \* the arguments of the calls of streamFunc so far, in order
  sReply      \* the *Response returned

streamVars == <<sPc, buf, streaming, jsonMode, sChunks, sCalls, sReply>>

VARIABLES
  \* --- the agent (agent.Agent and the locals of one Agent.Run)
  client,     \* a.client: the replies that its Chat/ChatStream may return
  maxIter,    \* a.maxIter
  history,    \* a.history
  pc,         \* "idle": no Run is active; "loop": at the loop head;
              \* "llm": Chat/ChatStream was called and has not returned;
              \* "tool": tool.Call was called and has not returned
  messages,   \* messages
  i,          \* i
  resp,       \* resp
  ret,        \* the last operation and what it returned: [op, val, err]
  \* --- what the mocks of agent_test.go record, kept per Run
  requests,   \* MockLLMClient.messages: the message list of every request
  replies,    \* the responses the client returned, in order
  toolLog,    \* the tool calls that reached a tool's Call, in order
  toolsDone,  \* how many of them have returned
  results,    \* per tool-call iteration: [iter, Name, known, text, err]
  runs,       \* Run calls since New
  fails,      \* Run calls that returned an error since New
  cleared,    \* ClearHistory was called since New
  entry       \* a.history when the current (or last) Run was entered

agentVars == <<client, maxIter, history, pc, messages, i, resp, ret, requests, replies,
               toolLog, toolsDone, results, runs, fails, cleared, entry>>

VARIABLES
  \* --- one call of a function that keeps no state between calls
  fPc,        \* "input": not yet called; "returned"
  fArg,       \* its arguments, and what its environment will answer
  fRes        \* what it returned, and what it asked of its environment

fnVars == <<fPc, fArg, fRes>>

VARIABLES
  \* --- func main
  mPc,        \* "mcp": in the loop over --mcp; "wiki"; "agent"; "repl";
              \* "returning": main returned, deferred calls are running;
              \* "exited": the process has ended
  mFlags,     \* the command line: [mcp, wiki, indexOnly]
  mI,         \* i of `for i, spec := range mcpSpecs`
  mNames,     \* what parseMCPSpec returned for the specs so far, in order
  toolList,   \* toolList: the names of the tools, in order
  mBuilt,     \* the MCP tools constructed so far (by position in --mcp)
  mDefers,    \* the deferred Close calls, the last deferred last
  mClosed,    \* the MCP tools on which Close was called, in order
  mLines,     \* how many lines the REPL has read
  mExit       \* how the process ended: "" (running), "return", "os.Exit(1)"

mainVars == <<mPc, mFlags, mI, mNames, toolList, mBuilt, mDefers, mClosed, mLines, mExit>>

\* rag.VisionClient
VARIABLES
  vPc,        \* "off": no client; "ready": NewVisionClient has returned
  vCache,     \* c.cache: description by absolute path
  vFile,      \* the cache file: the map last saved, or "none"
  vCalls,     \* the image paths sent to the vision backend, in order
  vLog        \* the calls made on the client and what they returned

visionVars == <<vPc, vCache, vFile, vCalls, vLog>>

\* rag.Indexer.Index and the vector store it writes
VARIABLES
  xPc,        \* where Index is: "off", "load", "delete", "ensure", "pages",
              \* "embed", "upsert", "returned"
  xStore,     \* the collection: "absent", "old" (documents of an earlier
              \* run), "fresh" (just created, empty), "new" (this run's documents)
  xOld,       \* the collection when Index was called
  xPages,     \* pages: how many documents each loaded page will give
  xPage,      \* how many pages have been processed
  xDocs,      \* len(allDocs)
  xEmbedded,  \* how many of allDocs have their vector
  xLog,       \* the calls made on the loader, the store and the embedder
  xRet        \* the error Index returned, NoErr for nil

indexVars == <<xPc, xStore, xOld, xPages, xPage, xDocs, xEmbedded, xLog, xRet>>

\* tools.NewMCPTool
VARIABLES
  nPc,        \* where NewMCPTool is: "off", "start", "init", "list", "returned"
  nCommand,   \* command, the server's executable
  nClient,    \* c and the child process: "none", "open", "closed"
  nLog,       \* the calls made on c, in order
  nRet        \* what NewMCPTool returned: [tool, err]; << >> before

connVars == <<nPc, nCommand, nClient, nLog, nRet>>

vars == <<parseVars, streamVars, agentVars, fnVars, mainVars, visionVars, indexVars,
          connVars>>

\* what the steps of one component leave alone
notParse == <<streamVars, agentVars, fnVars, mainVars, visionVars, indexVars, connVars>>
notStream == <<parseVars, agentVars, fnVars, mainVars, visionVars, indexVars, connVars>>
notAgent == <<parseVars, streamVars, fnVars, mainVars, visionVars, indexVars, connVars>>
notFn == <<parseVars, streamVars, agentVars, mainVars, visionVars, indexVars, connVars>>
notMain == <<parseVars, streamVars, agentVars, fnVars, visionVars, indexVars, connVars>>
notVision == <<parseVars, streamVars, agentVars, fnVars, mainVars, indexVars, connVars>>
notIndex == <<parseVars, streamVars, agentVars, fnVars, mainVars, visionVars, connVars>>
notConn == <<parseVars, streamVars, agentVars, fnVars, mainVars, visionVars, indexVars>>

\* ======================================================================
\* The parser on bounded replies
\* ======================================================================
\* a quoted JSON string, a "key": value member, an object
Q(w) == <<QT, w, QT>>
KV(k, v) == Q(k) \o <<CL, SP>> \o v
Obj(members) == <<LB>> \o members \o <<RB>>
EmptyObj == <<LB, RB>>
NoReply == Response(<< >>, << >>, FALSE)

\* what an object carries under one of the keys `parameters`, `params`:
\* nothing or null, or an object with the given keys
Absent == [nil |-> TRUE, keys |-> {}]
Keys(K) == [nil |-> FALSE, keys |-> K]

\* Well-formed tool-call objects: the text; what it carries under the four
\* keys (has); and the name, the argument keys and the nil-ness of the
\* arguments of the tool call that it denotes.
CallBodies == {
  \* {"name": "shell", "parameters": {"command": "ls"}}
  [kind |-> "call", name |-> <<"shell">>, keys |-> {<<"command">>}, nil |-> FALSE,
   has |-> [name |-> <<"shell">>, tool |-> << >>,
            parameters |-> Keys({<<"command">>}), params |-> Absent],
   text |-> Obj(KV("name", Q("shell")) \o <<CM, SP>> \o
                KV("parameters", Obj(KV("command", Q("ls")))))],
  \* {"tool": "ssh", "params": {}}
  [kind |-> "call", name |-> <<"ssh">>, keys |-> {}, nil |-> FALSE,
   has |-> [name |-> << >>, tool |-> <<"ssh">>,
            parameters |-> Absent, params |-> Keys({})],
   text |-> Obj(KV("tool", Q("ssh")) \o <<CM, SP>> \o KV("params", EmptyObj))],
  \* the object spans several lines
  [kind |-> "call", name |-> <<"shell">>, keys |-> {}, nil |-> FALSE,
   has |-> [name |-> <<"shell">>, tool |-> << >>,
            parameters |-> Keys({}), params |-> Absent],
   text |-> Obj(<<NL, SP>> \o KV("name", Q("shell")) \o <<CM, NL, SP>> \o
                KV("parameters", EmptyObj) \o <<NL>>)],
  \* a nested object among the arguments
  [kind |-> "call", name |-> <<"mcp">>, keys |-> {<<"arguments">>}, nil |-> FALSE,
   has |-> [name |-> <<"mcp">>, tool |-> << >>,
            parameters |-> Keys({<<"arguments">>}), params |-> Absent],
   text |-> Obj(KV("name", Q("mcp")) \o <<CM>> \o
                KV("parameters", Obj(KV("arguments", Obj(KV("path", Q("x")))))))],
  \* a string value holding a lone "}"
  [kind |-> "call", name |-> <<"shell">>, keys |-> {<<"command">>, <<"x">>}, nil |-> FALSE,
   has |-> [name |-> <<"shell">>, tool |-> << >>,
            parameters |-> Keys({<<"command">>, <<"x">>}), params |-> Absent],
   text |-> Obj(KV("name", Q("shell")) \o <<CM>> \o
                KV("parameters", Obj(KV("command", <<QT, "echo", SP, RB, QT>>)
                                     \o <<CM>> \o KV("x", Q("y")))))],
  \* a string value holding a lone "{"
  [kind |-> "call", name |-> <<"shell">>, keys |-> {<<"command">>}, nil |-> FALSE,
   has |-> [name |-> <<"shell">>, tool |-> << >>,
            parameters |-> Keys({<<"command">>}), params |-> Absent],
   text |-> Obj(KV("name", Q("shell")) \o <<CM>> \o
                KV("parameters", Obj(KV("command", <<QT, LB, SP, "x", QT>>))))],
  \* escaped quotes inside a string value
  [kind |-> "call", name |-> <<"shell">>, keys |-> {<<"command">>}, nil |-> FALSE,
   has |-> [name |-> <<"shell">>, tool |-> << >>,
            parameters |-> Keys({<<"command">>}), params |-> Absent],
   text |-> Obj(KV("name", Q("shell")) \o <<CM>> \o
                KV("parameters",
                   Obj(KV("command", <<QT, "say", SP, BS, QT, "hi", BS, QT, QT>>))))],
  \* {"name": "shell"}
  [kind |-> "call", name |-> <<"shell">>, keys |-> {}, nil |-> TRUE,
   has |-> [name |-> <<"shell">>, tool |-> << >>,
            parameters |-> Absent, params |-> Absent],
   text |-> Obj(KV("name", Q("shell")))],
  \* {"tool": "ssh", "parameters": null}
  [kind |-> "call", name |-> <<"ssh">>, keys |-> {}, nil |-> TRUE,
   has |-> [name |-> << >>, tool |-> <<"ssh">>,
            parameters |-> Absent, params |-> Absent],
   text |-> Obj(KV("tool", Q("ssh")) \o <<CM, SP>> \o KV("parameters", <<"null">>))],
  \* {"name": "", "tool": "ssh", "parameters": null, "params": {"host": "h"}}
  [kind |-> "call", name |-> <<"ssh">>, keys |-> {<<"host">>}, nil |-> FALSE,
   has |-> [name |-> << >>, tool |-> <<"ssh">>,
            parameters |-> Absent, params |-> Keys({<<"host">>})],
   text |-> Obj(KV("name", <<QT, QT>>) \o <<CM, SP>> \o KV("tool", Q("ssh")) \o <<CM, SP>>
                \o KV("parameters", <<"null">>) \o <<CM, SP>>
                \o KV("params", Obj(KV("host", Q("h")))))],
  \* {"name": "shell", "tool": "ssh", "parameters": {}, "params": {"host": "h"}}
  [kind |-> "call", name |-> <<"shell">>, keys |-> {}, nil |-> FALSE,
   has |-> [name |-> <<"shell">>, tool |-> <<"ssh">>,
            parameters |-> Keys({}), params |-> Keys({<<"host">>})],
   text |-> Obj(KV("name", Q("shell")) \o <<CM, SP>> \o KV("tool", Q("ssh")) \o <<CM, SP>>
                \o KV("parameters", EmptyObj) \o <<CM, SP>>
                \o KV("params", Obj(KV("host", Q("h")))))]
}

\* Texts that are no tool call: unmatched, not JSON, or without a name.
JunkTexts == {
  << >>,
  <<"The", SP, "system", SP, "runs", SP, "Linux">>,
  <<LB>>,
  \* {"name": "shell", "parameters": {"command": "ls"     (never closed)
  <<LB>> \o KV("name", Q("shell")) \o <<CM, SP>> \o
     KV("parameters", <<LB>> \o KV("command", Q("ls"))),
  \* {"name": "shell       (the string and the object never closed)
  <<LB>> \o Q("name") \o <<CL, QT, "shell">>,
  \* {"parameters": {"command": "ls"}}
  Obj(KV("parameters", Obj(KV("command", Q("ls"))))),
  EmptyObj,
  \* {"name": ""}
  Obj(KV("name", <<QT, QT>>)),
  \* {"name": 1}
  Obj(KV("name", <<"1">>)),
  \* {"name": "shell", "parameters": ["ls"]}
  Obj(KV("name", Q("shell")) \o <<CM>> \o KV("parameters", <<LK>> \o Q("ls") \o <<RK>>)),
  \* {name: "shell"}
  Obj(<<"name", CL>> \o Q("shell")),
  \* {"name": "shell",}
  Obj(KV("name", Q("shell")) \o <<CM>>),
  \* {"other": "shell"}
  Obj(KV("other", Q("shell")))
}

NoFields == [name |-> << >>, tool |-> << >>, parameters |-> Absent, params |-> Absent]
JunkBody(t) ==
  [kind |-> "junk", name |-> << >>, keys |-> {}, nil |-> TRUE, has |-> NoFields, text |-> t]
JunkBodies == {JunkBody(t) : t \in JunkTexts}

\* prose before the object without any "{"
PlainPrefixes == {
  << >>,
  <<"I", SP, "need", SP, "to", SP, "check", CL, NL>>,
  <<NL, SP>>,
  <<"He", SP, "said", SP, QT, "hi", QT, SP>>,
  <<"Answer", CL, SP>>
}

\* text before the object that holds a "{" of its own, and an opening bracket
BracePrefixes == {<<"use", SP, LB, "shell", RB, CL, SP>>}
ArrayPrefix == <<LK>>

Prefixes == PlainPrefixes \cup BracePrefixes \cup {ArrayPrefix}

\* text after the object: nothing, prose, an invented tool output, another
\* object, an opening brace that is never closed, a closing bracket
UnclosedSuffix == <<SP, LB>>
OtherCallSuffix == <<NL>> \o Obj(KV("name", Q("other")))
Suffixes == {
  << >>,
  <<SP, "Let", SP, "me", SP, "do", SP, "that">>,
  <<NL, "Tool", SP, "returned", CL, SP, LB, "x", RB, NL>>,
  OtherCallSuffix,
  UnclosedSuffix,
  <<RK>>
}

StreamIdle ==
  /\ sPc = "off"
  /\ buf = << >>
  /\ streaming = FALSE
  /\ jsonMode = FALSE
  /\ sChunks = << >>
  /\ sCalls = << >>
  /\ sReply = NoReply

\* no error: Go's nil error
NoErr == << >>
NoRet == [op |-> "New", val |-> << >>, err |-> NoErr]

AgentIdle ==
  /\ client = {}
  /\ maxIter = 1
  /\ history = << >>
  /\ pc = "off"
  /\ messages = << >>
  /\ i = 0
  /\ resp = NoReply
  /\ ret = NoRet
  /\ requests = << >>
  /\ replies = << >>
  /\ toolLog = << >>
  /\ toolsDone = 0
  /\ results = << >>
  /\ runs = 0
  /\ fails = 0
  /\ cleared = FALSE
  /\ entry = << >>

ParseIdle ==
  /\ pPc = "off"
  /\ pBuilt = [pre |-> << >>, body |-> JunkBody(<< >>), post |-> << >>]
  /\ pInput = << >>
  /\ pReply = NoReply
  /\ pPanic = FALSE

FnIdle ==
  /\ fPc = "off"
  /\ fArg = << >>
  /\ fRes = << >>

MainIdle ==
  /\ mPc = "off"
  /\ mFlags = [mcp |-> << >>, wiki |-> FALSE, indexOnly |-> FALSE]
  /\ mI = 0
  /\ mNames = << >>
  /\ toolList = << >>
  /\ mBuilt = << >>
  /\ mDefers = << >>
  /\ mClosed = << >>
  /\ mLines = 0
  /\ mExit = ""

VisionIdle ==
  /\ vPc = "off"
  /\ vCache = << >>
  /\ vFile = "none"
  /\ vCalls = << >>
  /\ vLog = << >>

IndexIdle ==
  /\ xPc = "off"
  /\ xStore = "absent"
  /\ xOld = "absent"
  /\ xPages = << >>
  /\ xPage = 0
  /\ xDocs = 0
  /\ xEmbedded = 0
  /\ xLog = << >>
  /\ xRet = NoErr

ConnIdle ==
  /\ nPc = "off"
  /\ nCommand = << >>
  /\ nClient = "none"
  /\ nLog = << >>
  /\ nRet = << >>

\* every component but c is not running
IdleBut(c) ==
  /\ IF c = "conn" THEN TRUE ELSE ConnIdle
  /\ IF c = "index" THEN TRUE ELSE IndexIdle
  /\ IF c = "vision" THEN TRUE ELSE VisionIdle
  /\ IF c = "main" THEN TRUE ELSE MainIdle
  /\ IF c = "parse" THEN TRUE ELSE ParseIdle
  /\ IF c = "stream" THEN TRUE ELSE StreamIdle
  /\ IF c = "agent" THEN TRUE ELSE AgentIdle
  /\ IF c = "fn" THEN TRUE ELSE FnIdle

ParseInit ==
  /\ IdleBut("parse")
  /\ pPc = "input"
  /\ pBuilt \in [pre : Prefixes, body : CallBodies \cup JunkBodies, post : Suffixes]
  /\ pInput = pBuilt.pre \o pBuilt.body.text \o pBuilt.post
  /\ pReply = NoReply
  /\ pPanic = FALSE

\* c.parseResponse(content)
ParseCall ==
  /\ pPc = "input"
  /\ pPc' = "parsed"
  /\ pPanic' = ~parseSlicesOK(pInput)
  /\ pReply' = parseResponse(pInput)
  /\ UNCHANGED <<pBuilt, pInput>>
  /\ UNCHANGED notParse

ParseNext == ParseCall

SpecParse == ParseInit /\ [][ParseNext]_vars

\* ---------------------------------------------------------------- C6, C7
\* where the first "{" of the built reply lies
FirstBraceIn(b) ==
  IF Index(b.pre, LB) # -1 THEN "pre"
  ELSE IF Index(b.body.text, LB) # -1 THEN "body"
  ELSE IF Index(b.post, LB) # -1 THEN "post"
  ELSE "none"

\* the reply ends at the closing brace of the object of pBuilt.body
EndsAtObject(b, r) ==
  /\ r.Content = TrimSpace(b.pre \o b.body.text)
  /\ r.Content[Len(r.Content)] = RB

\* exactly the one tool call of pBuilt.body was extracted
ExtractsBody(b, r) ==
  r.ToolCalls = <<[Name |-> b.body.name,
                   Params |-> [nil |-> b.body.nil, keys |-> b.body.keys]]>>

\* C6 as stated: for every reply that contains a well-formed tool-call object,
\* whatever surrounds it, the parser extracts exactly that call and the content
\* ends at the closing brace of that object.
C6_AnyProse ==
  (pPc = "parsed" /\ pBuilt.body.kind = "call")
    => (ExtractsBody(pBuilt, pReply) /\ EndsAtObject(pBuilt, pReply))

\* C6 amended: for every reply whose first "{" opens a well-formed tool-call
\* object (prose without "{" may precede it, anything may follow it), the parser
\* extracts exactly that call and the content ends at the closing brace of that
\* object, every character after it being discarded.
C6_FirstBraceObject ==
  (pPc = "parsed" /\ pBuilt.body.kind = "call" /\ FirstBraceIn(pBuilt) = "body")
    => (ExtractsBody(pBuilt, pReply) /\ EndsAtObject(pBuilt, pReply))

\* C6 witness: prose, a call whose strings hold braces, an invented tool output
C6_Witness ==
  /\ pPc = "parsed"
  /\ pBuilt.body.kind = "call"
  /\ <<"x">> \in pBuilt.body.keys
  /\ Len(pBuilt.pre) > 2 /\ FirstBraceIn(pBuilt) = "body"
  /\ Index(pBuilt.post, LB) # -1
  /\ Len(pReply.ToolCalls) = 1
  /\ Len(pReply.Content) < Len(TrimSpace(pInput))

\* the built reply has a brace that is never matched, or is a top-level array
Unmatched(b) == b.post = UnclosedSuffix
TopLevelArray(b) == b.pre = ArrayPrefix /\ b.post = <<RK>>

\* C7 as stated: for every reply with unmatched braces or malformed JSON
\* (an object without a name, a top-level array), the parser returns zero tool
\* calls and does not panic.
C7_AnyMalformed ==
  (pPc = "parsed" /\ (Unmatched(pBuilt) \/ TopLevelArray(pBuilt)
                        \/ (pBuilt.body.kind = "junk" /\ FirstBraceIn(pBuilt) = "body")))
    => (pReply.ToolCalls = << >> /\ ~pPanic)

\* the text from the first "{" of the reply is unmatched, or is matched and is
\* no JSON object with a non-empty name; or the reply has no "{"
FirstObjectIsJunk(b) ==
  \/ FirstBraceIn(b) = "pre"
  \/ FirstBraceIn(b) = "body" /\ b.body.kind = "junk"
  \/ FirstBraceIn(b) = "post" /\ b.post # OtherCallSuffix
  \/ FirstBraceIn(b) = "none"

\* C7 amended: the parser never panics, and it returns zero tool calls for every
\* reply whose first "{" is never matched or whose text from the first "{" to
\* its matching "}" is not a JSON object with a non-empty name (malformed JSON,
\* an object without a name, an array of such texts).
C7_FirstObjectJunk ==
  pPc = "parsed"
    => (~pPanic /\ (FirstObjectIsJunk(pBuilt) => pReply.ToolCalls = << >>))

\* C7 witness: an object that is never closed, after prose
C7_Witness ==
  /\ pPc = "parsed"
  /\ pBuilt.body.kind = "junk"
  /\ FirstBraceIn(pBuilt) = "body"
  /\ findMatchingBrace(pBuilt.body.text \o pBuilt.post) = -1
  /\ Len(pBuilt.pre) > 2
  /\ pReply.ToolCalls = << >>
  /\ ~pReply.IsFinish

\* ======================================================================
\* Client.ChatStream
\* ======================================================================
\* the most chunks the backend cuts one reply into
MaxChunks == 3

\* the replies the backend streams
ToolCallText == Obj(KV("name", Q("t")))
StreamContents == {
  ToolCallText,
  <<NL, SP>> \o ToolCallText,
  <<"Sure", CL, SP>> \o ToolCallText,
  <<LB, "x">>,
  <<"The", SP, "answer">>,
  <<SP, NL, "ok", SP, "then">>,
  <<SP, NL>>,
  << >>
}

\* the streaming callback with `else if streaming` turned into `else`
streamingFuncElse(b, st, jm, chunk) ==
  LET nb == b \o chunk IN
    IF ~st /\ ~jm
    THEN LET trimmed == TrimSpace(nb) IN
           IF Len(trimmed) > 0
           THEN (IF trimmed[1] = LB
                 THEN [buf |-> nb, streaming |-> st, jsonMode |-> TRUE, emit |-> << >>]
                 ELSE [buf |-> nb, streaming |-> TRUE, jsonMode |-> jm, emit |-> <<nb>>])
           ELSE [buf |-> nb, streaming |-> st, jsonMode |-> jm, emit |-> << >>]
    ELSE [buf |-> nb, streaming |-> st, jsonMode |-> jm, emit |-> <<chunk>>]

\* the streaming callback forwarding, at the latch, the chunk in place of
\* the buffer
streamingFuncChunk(b, st, jm, chunk) ==
  LET nb == b \o chunk IN
    IF ~st /\ ~jm
    THEN LET trimmed == TrimSpace(nb) IN
           IF Len(trimmed) > 0
           THEN (IF trimmed[1] = LB
                 THEN [buf |-> nb, streaming |-> st, jsonMode |-> TRUE, emit |-> << >>]
                 ELSE [buf |-> nb, streaming |-> TRUE, jsonMode |-> jm, emit |-> <<chunk>>])
           ELSE [buf |-> nb, streaming |-> st, jsonMode |-> jm, emit |-> << >>]
    ELSE IF st
         THEN [buf |-> nb, streaming |-> st, jsonMode |-> jm, emit |-> <<chunk>>]
         ELSE [buf |-> nb, streaming |-> st, jsonMode |-> jm, emit |-> << >>]

\* the callback given to llms.WithStreamingFunc (lines 130-148): the locals
\* after it, and what it passed to streamFunc
streamingFunc(b, st, jm, chunk) ==
  LET nb == b \o chunk IN
    IF ~st /\ ~jm
    THEN LET trimmed == TrimSpace(nb) IN
           IF Len(trimmed) > 0
           THEN (IF trimmed[1] = LB
                 THEN [buf |-> nb, streaming |-> st, jsonMode |-> TRUE, emit |-> << >>]
                 ELSE [buf |-> nb, streaming |-> TRUE, jsonMode |-> jm, emit |-> <<nb>>])
           ELSE [buf |-> nb, streaming |-> st, jsonMode |-> jm, emit |-> << >>]
    ELSE IF st
         THEN [buf |-> nb, streaming |-> st, jsonMode |-> jm, emit |-> <<chunk>>]
         ELSE [buf |-> nb, streaming |-> st, jsonMode |-> jm, emit |-> << >>]

\* ChatStream is entered: the locals of lines 125-127
StreamInit ==
  /\ IdleBut("stream")
  /\ sPc = "streaming"
  /\ buf = << >>
  /\ streaming = FALSE
  /\ jsonMode = FALSE
  /\ sChunks = << >>
  /\ sCalls = << >>
  /\ sReply = NoReply

\* the backend delivers the next chunk of the reply it is producing
StreamChunk ==
  /\ sPc = "streaming"
  /\ Len(sChunks) < MaxChunks
  /\ \E c \in StreamContents :
       /\ Len(buf) <= Len(c) /\ SubSeq(c, 1, Len(buf)) = buf
       /\ \E n \in 0..(Len(c) - Len(buf)) :
            LET chunk == SubSeq(c, Len(buf) + 1, Len(buf) + n)
                after == streamingFunc(buf, streaming, jsonMode, chunk)
            IN /\ buf' = after.buf
               /\ streaming' = after.streaming
               /\ jsonMode' = after.jsonMode
               /\ sCalls' = sCalls \o after.emit
               /\ sChunks' = Append(sChunks, chunk)
  /\ UNCHANGED <<sPc, sReply>>
  /\ UNCHANGED notStream

\* GenerateContent returns the complete reply: lines 153-158
StreamEnd ==
  /\ sPc = "streaming"
  /\ buf \in StreamContents
  /\ sPc' = "done"
  /\ sReply' = parseResponse(buf)
  /\ UNCHANGED <<buf, streaming, jsonMode, sChunks, sCalls>>
  /\ UNCHANGED notStream

\* GenerateContent fails, or returns no choice: lines 149-155
StreamFail ==
  /\ sPc = "streaming"
  /\ sPc' = "failed"
  /\ UNCHANGED <<buf, streaming, jsonMode, sChunks, sCalls, sReply>>
  /\ UNCHANGED notStream

StreamNext == StreamChunk \/ StreamEnd \/ StreamFail

SpecStream == StreamInit /\ [][StreamNext]_vars

\* ------------------------------------------------------------------- C8
RECURSIVE Concat(_)
Concat(chunks) ==
  IF chunks = << >> THEN << >> ELSE Head(chunks) \o Concat(Tail(chunks))

\* the reply so far has a non-blank byte
Decided(chunks) == TrimSpace(Concat(chunks)) # << >>

\* the first chunk that brings a non-blank byte
LatchChunk(chunks) ==
  CHOOSE k \in 1..Len(chunks) :
    /\ Decided(SubSeq(chunks, 1, k))
    /\ ~Decided(SubSeq(chunks, 1, k - 1))

\* whatever the cut: a reply whose first non-blank byte is "{" reaches
\* streamFunc never; any other reply latches streaming at the chunk that
\* brings its first non-blank byte, and every later chunk is forwarded
C8_Mode ==
  (sPc # "off" /\ Decided(sChunks)) =>
    LET first == TrimSpace(Concat(sChunks))[1]
        k     == LatchChunk(sChunks)
    IN IF first = LB
       THEN sCalls = << >> /\ jsonMode /\ ~streaming
       ELSE /\ streaming /\ ~jsonMode
            /\ Len(sCalls) = Len(sChunks) - k + 1
            /\ \A j \in (k + 1)..Len(sChunks) : sCalls[j - k + 1] = sChunks[j]

\* C8: in ChatStream, a reply whose first non-blank byte is "{" never reaches
\* on_chunk however it is cut into chunks; otherwise streaming latches on at
\* the first chunk that brings a non-blank byte and every later chunk is
\* forwarded; and a mode, once decided, stays for the rest of the reply.
C8_StreamLatch ==
  /\ []C8_Mode
  /\ [][(streaming => streaming') /\ (jsonMode => jsonMode')]_vars

\* C8 witness: a tool call after blanks, cut into three chunks, went by silently
C8_Witness ==
  /\ sPc = "done"
  /\ Len(sChunks) = 3
  /\ \A j \in 1..3 : sChunks[j] # << >>
  /\ IsSpace(buf[1])
  /\ ~Decided(SubSeq(sChunks, 1, 1))
  /\ jsonMode
  /\ Len(sReply.ToolCalls) = 1
  /\ sCalls = << >>

\* C28: whenever the reply ChatStream returns carries a parsed tool call,
\* streamFunc was not called at any point of that call, so no tool-call JSON
\* reaches the terminal through streaming.
C28_ToolCallNeverStreamed ==
  (sPc = "done" /\ Len(sReply.ToolCalls) > 0) => sCalls = << >>

\* C29: once streaming has latched, the strings passed to streamFunc, joined
\* in call order, are the chunks received from the backend joined in order,
\* the blanks buffered before the decision included: nothing is dropped and
\* nothing is forwarded twice.
C29_StreamedIsReceived ==
  (sPc # "off" /\ streaming) =>
    /\ Concat(sCalls) = Concat(sChunks)
    /\ Concat(sCalls) = buf

\* C29 witness: a reply opening with blanks arrived in three chunks, the
\* first all blank, and was streamed whole
C29_Witness ==
  /\ sPc = "done"
  /\ streaming
  /\ Len(sChunks) = 3
  /\ sChunks[1] # << >> /\ TrimSpace(sChunks[1]) = << >>
  /\ sChunks[2] # << >> /\ sChunks[3] # << >>
  /\ Len(sCalls) = 2
  /\ Concat(sCalls) = <<SP, NL, "ok", SP, "then">>

\* ======================================================================
\* The agent: New, Run, executeTool, ClearHistory
\* ======================================================================
\* the most Run calls in one behaviour, and the largest -max-iter given
MaxRuns == 2
MaxIterCfg == 3

\* llm.Message
Message(role, content) == [Role |-> role, Content |-> content]

\* line 111: how much of a tool result the operator is shown
ShownMax == 500

\* a tool result longer than what the operator is shown
LongResult == [k \in 1..(ShownMax + 1) |-> IF k = 1 THEN "world" ELSE "w"]

\* the tools handed to New, as the MockTool of agent_test.go: a name, and the
\* text and the error that Call returns
CfgTools == <<
  [name |-> <<"test">>, result |-> LongResult, err |-> NoErr],
  [name |-> <<"failing">>, result |-> << >>, err |-> <<"tool", SP, "exploded">>]
>>

\* New, lines 50-52: the default of the iteration bound
NewMaxIter(cfgMaxIter) == IF cfgMaxIter = 0 THEN 10 ELSE cfgMaxIter

\* New, lines 55-56: a.tools, a later tool of the same name replacing an earlier
NewTools(cfgTools) ==
  [n \in {cfgTools[k].name : k \in 1..Len(cfgTools)} |->
     cfgTools[CHOOSE k \in 1..Len(cfgTools) :
                /\ cfgTools[k].name = n
                /\ \A j \in (k + 1)..Len(cfgTools) : cfgTools[j].name # n]]

\* New, lines 57-61: a.toolDefs
NewToolDefs(cfgTools) == [k \in 1..Len(cfgTools) |-> [Name |-> cfgTools[k].name]]

\* llm.BuildSystemPrompt: the fixed text, then one entry per tool descriptor,
\* then the closing process summary
BuildSystemPrompt(toolDefs) ==
  <<"You are an autonomous agent", NL, "Available tools:", NL>>
    \o [k \in 1..Len(toolDefs) |-> toolDefs[k].Name[1]]
    \o <<NL, "Process:">>

tools == NewTools(CfgTools)
systemPrompt == BuildSystemPrompt(NewToolDefs(CfgTools))

\* what the operator types as a turn
UserInputs == {<<"Use", SP, "the", SP, "tool">>}

\* the replies of the chat client: those that Client.parseResponse makes of
\* the model's text, and one that only a mock client makes (two tool calls)
ToolCallReply(name) ==
  Obj(KV("name", Q(name)) \o <<CM, SP>> \o KV("parameters", EmptyObj))
ReplyContents == {
  ToolCallReply("test"),
  ToolCallReply("failing"),
  ToolCallReply("nonexistent"),
  <<"The", SP, "answer", SP, "is", SP, "42.">>,
  <<"Answer", CL, SP, LB, "x", RB>>,
  <<LB, "x">>
}
TwoCallsReply ==
  Response(ToolCallReply("test") \o <<NL>> \o ToolCallReply("failing"),
           <<[Name |-> <<"test">>, Params |-> [nil |-> FALSE, keys |-> {}]],
             [Name |-> <<"failing">>, Params |-> [nil |-> FALSE, keys |-> {}]]>>,
           FALSE)
ClientReplies == {parseResponse(c) : c \in ReplyContents} \cup {TwoCallsReply}

\* the error of a failing backend, as Client.Chat wraps it (line 89)
LLMErr == <<"llm generate failed", CL, SP, "connection refused">>

\* fmt.Errorf("agent iteration %d: %w", i, err)
IterErr(n, err) == <<"agent iteration", SP, ToString(n), CL, SP>> \o err

\* MaxIterErr reporting the index of the last iteration
MaxIterErrLast(n) == <<"max iterations (", ToString(n - 1), ") reached">>

\* fmt.Errorf("max iterations (%d) reached", a.maxIter)
MaxIterErr(n) == <<"max iterations (", ToString(n), ") reached">>

\* the loop condition with <= for <
loopGuardLE(n, bound) == n <= bound

\* the loop condition of line 81
loopGuard(n, bound) == n < bound

\* the last tool call of the reply instead of the first
firstToolCallLast(r) == r.ToolCalls[Len(r.ToolCalls)]

\* line 103: tc := resp.ToolCalls[0]
firstToolCall(r) == r.ToolCalls[1]

\* executeTool, lines 146-149: the lookup, and the error for an unknown name
toolKnown(name) == name \in DOMAIN tools
UnknownToolErr(name) == <<"unknown tool", CL, SP>> \o name

\* the error text without its prefix
renderErrorBare(err) == err

\* line 108: fmt.Sprintf("Error: %v", err)
renderError(err) == <<"Error", CL, SP>> \o err

\* truncate, lines 158-163
truncate(str, maxLen) ==
  IF Len(str) <= maxLen THEN str ELSE SubSeq(str, 1, maxLen) \o <<".", ".", ".">>

\* the tool message made of what the operator is shown
ToolMessageShown(name, result) ==
  Message("tool", <<"Tool '">> \o name \o <<"' returned:", NL>>
                    \o truncate(result, ShownMax))

\* line 119: fmt.Sprintf("Tool '%s' returned:\n%s", tc.Name, result)
ToolMessage(name, result) ==
  Message("tool", <<"Tool '">> \o name \o <<"' returned:", NL>> \o result)

\* the two appends in the other order
appendExchangeSwapped(msgs, content, name, result) ==
  msgs \o <<ToolMessage(name, result), Message("assistant", content)>>

\* lines 113-120: the assistant's tool call, then the tool result
appendExchange(msgs, content, name, result) ==
  msgs \o <<Message("assistant", content), ToolMessage(name, result)>>

\* the request built without the history
buildMessagesNoHistory(sys, h, userInput) ==
  <<Message("system", sys), Message("user", userInput)>>

\* lines 71-75: the system prompt, the history, the new user input
buildMessages(sys, h, userInput) ==
  <<Message("system", sys)>> \o h \o <<Message("user", userInput)>>

\* ClearHistory keeping the history
historyAfterClearKept(h) == h

\* line 155: a.history = nil
historyAfterClear(h) == << >>

\* the user message is not recorded on entry
historyAtEntryNone(h, userInput) == h

\* line 78: the user message enters the history before the loop
historyAtEntry(h, userInput) == Append(h, Message("user", userInput))

\* the final answer is not recorded
historyAfterFinalNone(h, content) == h

\* lines 127-130: the final answer enters the history
historyAfterFinal(h, content) == Append(h, Message("assistant", content))

\* lines 102 and 125: what Run does with a reply
IsToolReply(r) == Len(r.ToolCalls) > 0
IsFinalReply(r) == ~IsToolReply(r) /\ (r.IsFinish \/ ~Contains(r.Content, <<LB>>))

\* agent.New(cfg), with -max-iter taken from 1..MaxIterCfg
AgentInit ==
  /\ IdleBut("agent")
  /\ client = ClientReplies
  /\ maxIter \in {NewMaxIter(c) : c \in 1..MaxIterCfg}
  /\ history = << >>
  /\ pc = "idle"
  /\ messages = << >>
  /\ i = 0
  /\ resp = NoReply
  /\ ret = NoRet
  /\ requests = << >>
  /\ replies = << >>
  /\ toolLog = << >>
  /\ toolsDone = 0
  /\ results = << >>
  /\ runs = 0
  /\ fails = 0
  /\ cleared = FALSE
  /\ entry = << >>

\* Run is entered: lines 71-78 and the loop's init statement
RunEnter ==
  /\ pc = "idle"
  /\ runs < MaxRuns
  /\ \E userInput \in UserInputs :
       /\ messages' = buildMessages(systemPrompt, history, userInput)
       /\ history' = historyAtEntry(history, userInput)
  /\ i' = 0
  /\ pc' = "loop"
  /\ resp' = NoReply
  /\ ret' = [op |-> "Run", val |-> << >>, err |-> NoErr]
  /\ requests' = << >>
  /\ replies' = << >>
  /\ toolLog' = << >>
  /\ toolsDone' = 0
  /\ results' = << >>
  /\ runs' = runs + 1
  /\ entry' = history
  /\ UNCHANGED <<client, maxIter, fails, cleared>>
  /\ UNCHANGED notAgent

\* the loop condition holds: the request of this iteration is issued (85-96)
LoopChat ==
  /\ pc = "loop"
  /\ loopGuard(i, maxIter)
  /\ pc' = "llm"
  /\ requests' = Append(requests, messages)
  /\ UNCHANGED <<client, maxIter, history, messages, i, resp, ret, replies, toolLog,
                 toolsDone, results, runs, fails, cleared, entry>>
  /\ UNCHANGED notAgent

\* the loop condition fails: line 141
LoopExhausted ==
  /\ pc = "loop"
  /\ ~loopGuard(i, maxIter)
  /\ pc' = "idle"
  /\ ret' = [op |-> "Run", val |-> << >>, err |-> MaxIterErr(maxIter)]
  /\ fails' = fails + 1
  /\ UNCHANGED <<client, maxIter, history, messages, i, resp, requests, replies, toolLog,
                 toolsDone, results, runs, cleared, entry>>
  /\ UNCHANGED notAgent

\* the client returns an error: lines 97-99
ChatFails ==
  /\ pc = "llm"
  /\ pc' = "idle"
  /\ ret' = [op |-> "Run", val |-> << >>, err |-> IterErr(i, LLMErr)]
  /\ fails' = fails + 1
  /\ UNCHANGED <<client, maxIter, history, messages, i, resp, requests, replies, toolLog,
                 toolsDone, results, runs, cleared, entry>>
  /\ UNCHANGED notAgent

\* the reply has a tool call and its name is registered: executeTool calls the
\* tool (lines 102-106, 146, 150)
ReplyCallsTool ==
  /\ pc = "llm"
  /\ \E r \in client :
       /\ IsToolReply(r)
       /\ toolKnown(firstToolCall(r).Name)
       /\ resp' = r
       /\ replies' = Append(replies, r)
       /\ toolLog' = Append(toolLog, firstToolCall(r))
  /\ pc' = "tool"
  /\ UNCHANGED <<client, maxIter, history, messages, i, ret, requests, toolsDone, results,
                 runs, fails, cleared, entry>>
  /\ UNCHANGED notAgent

\* the tool returns: lines 106-121
ToolReturns ==
  /\ pc = "tool"
  /\ LET tc     == firstToolCall(resp)
         tool   == tools[tc.Name]
         result == IF tool.err # NoErr THEN renderError(tool.err) ELSE tool.result
     IN /\ messages' = appendExchange(messages, resp.Content, tc.Name, result)
        /\ results' = Append(results, [iter |-> i, Name |-> tc.Name, known |-> TRUE,
                                       text |-> tool.result, err |-> tool.err,
                                       shown |-> truncate(result, ShownMax)])
  /\ toolsDone' = toolsDone + 1
  /\ i' = i + 1
  /\ pc' = "loop"
  /\ UNCHANGED <<client, maxIter, history, resp, ret, requests, replies, toolLog, runs,
                 fails, cleared, entry>>
  /\ UNCHANGED notAgent

\* the reply has a tool call and its name is not registered: executeTool
\* returns its error at once (lines 102-121, 146-149)
ReplyUnknownTool ==
  /\ pc = "llm"
  /\ \E r \in client :
       /\ IsToolReply(r)
       /\ ~toolKnown(firstToolCall(r).Name)
       /\ LET tc  == firstToolCall(r)
              err == UnknownToolErr(tc.Name)
          IN /\ messages' = appendExchange(messages, r.Content, tc.Name,
                                           renderError(err))
             /\ results' = Append(results, [iter |-> i, Name |-> tc.Name,
                                            known |-> FALSE, text |-> << >>,
                                            err |-> err,
                                            shown |-> truncate(renderError(err), ShownMax)])
       /\ resp' = r
       /\ replies' = Append(replies, r)
  /\ i' = i + 1
  /\ pc' = "loop"
  /\ UNCHANGED <<client, maxIter, history, ret, requests, toolLog, toolsDone, runs, fails,
                 cleared, entry>>
  /\ UNCHANGED notAgent

\* the reply is the final answer: lines 125-132
ReplyFinal ==
  /\ pc = "llm"
  /\ \E r \in client :
       /\ IsFinalReply(r)
       /\ resp' = r
       /\ replies' = Append(replies, r)
       /\ history' = historyAfterFinal(history, r.Content)
       /\ ret' = [op |-> "Run", val |-> r.Content, err |-> NoErr]
  /\ pc' = "idle"
  /\ UNCHANGED <<client, maxIter, messages, i, requests, toolLog, toolsDone, results, runs,
                 fails, cleared, entry>>
  /\ UNCHANGED notAgent

\* the reply dropped instead of appended
appendAssistantNone(msgs, content) == msgs

\* lines 135-138: the reply joins the working list as an assistant message
appendAssistant(msgs, content) == Append(msgs, Message("assistant", content))

\* the reply is neither a tool call nor final: lines 134-139
ReplyContinues ==
  /\ pc = "llm"
  /\ \E r \in client :
       /\ ~IsToolReply(r) /\ ~IsFinalReply(r)
       /\ resp' = r
       /\ replies' = Append(replies, r)
       /\ messages' = appendAssistant(messages, r.Content)
  /\ i' = i + 1
  /\ pc' = "loop"
  /\ UNCHANGED <<client, maxIter, history, ret, requests, toolLog, toolsDone, results, runs,
                 fails, cleared, entry>>
  /\ UNCHANGED notAgent

\* ClearHistory, between two turns
ClearHistory ==
  /\ pc = "idle"
  /\ history' = historyAfterClear(history)
  /\ cleared' = TRUE
  /\ ret' = [op |-> "ClearHistory", val |-> << >>, err |-> NoErr]
  /\ UNCHANGED <<client, maxIter, pc, messages, i, resp, requests, replies, toolLog,
                 toolsDone, results, runs, fails, entry>>
  /\ UNCHANGED notAgent

\* the steps of an active Run: they need no operator input
RunStep ==
  \/ LoopChat
  \/ LoopExhausted
  \/ ChatFails
  \/ ReplyCallsTool
  \/ ToolReturns
  \/ ReplyUnknownTool
  \/ ReplyFinal
  \/ ReplyContinues

Next == RunEnter \/ RunStep \/ ClearHistory

Spec == AgentInit /\ [][Next]_vars

\* the client and the tools always return, and Run goes on when they have
FairSpec == Spec /\ WF_vars(RunStep)

\* ------------------------------------------------- C1-C5, C9, C10
Last(q) == q[Len(q)]
IsPrefix(a, b) == Len(a) <= Len(b) /\ SubSeq(b, 1, Len(a)) = a
InRun == pc \in {"loop", "llm", "tool"}
Returned == pc = "idle" /\ ret.op = "Run"

\* the reply carries a tool call whose first entry names a registered tool
NamesRegisteredTool(r) ==
  r.ToolCalls # << >> /\ r.ToolCalls[1].Name \in {CfgTools[k].name : k \in 1..Len(CfgTools)}

\* the first tool calls of the replies that name a registered tool, in order
RECURSIVE FirstCalls(_)
FirstCalls(rs) ==
  IF rs = << >> THEN << >>
  ELSE IF NamesRegisteredTool(Head(rs))
       THEN <<Head(rs).ToolCalls[1]>> \o FirstCalls(Tail(rs))
       ELSE FirstCalls(Tail(rs))

\* the messages of one role, in order
RECURSIVE OfRole(_, _)
OfRole(msgs, role) ==
  IF msgs = << >> THEN << >>
  ELSE IF Head(msgs).Role = role THEN <<Head(msgs)>> \o OfRole(Tail(msgs), role)
  ELSE OfRole(Tail(msgs), role)

\* the text that the model is to see for the k-th tool-call iteration
ErrorOf(e) ==
  IF e.known
  THEN (CHOOSE t \in {CfgTools[k] : k \in 1..Len(CfgTools)} : t.name = e.Name).err
  ELSE <<"unknown tool", CL, SP>> \o e.Name
SeenText(e) ==
  <<"Tool '">> \o e.Name \o <<"' returned:", NL>> \o
    (IF e.err # NoErr THEN <<"Error", CL, SP>> \o ErrorOf(e) ELSE e.text)

\* C1: after n Run calls on a fresh agent that all succeeded, with no
\* ClearHistory, the history has 2n messages and its roles alternate user,
\* assistant; the history never holds a system message, a tool message or the
\* content of a reply that carried a tool call.
C1_HistoryPairs ==
  /\ (pc = "idle" /\ fails = 0 /\ ~cleared) =>
       /\ Len(history) = 2 * runs
       /\ \A k \in 1..Len(history) :
            history[k].Role = IF k % 2 = 1 THEN "user" ELSE "assistant"
  /\ \A k \in 1..Len(history) :
       /\ history[k].Role \in {"user", "assistant"}
       /\ history[k].Role = "assistant" =>
            \A r \in client : r.ToolCalls # << >> => history[k].Content # r.Content

\* C1 witness: two successful turns, the second through a tool call
C1_Witness ==
  /\ pc = "idle" /\ fails = 0 /\ ~cleared
  /\ runs = 2
  /\ Len(history) = 4
  /\ Len(toolLog) >= 1

\* the Run ended on the iteration bound
HitBound == Returned /\ ret.err = MaxIterErr(maxIter)

\* C2 as stated: every Run that fails on the iteration bound has invoked a
\* tool exactly iteration_bound times.
C2_ExactlyBound == HitBound => Len(toolLog) = maxIter

\* C2 amended: every Run that fails on the iteration bound has invoked a tool
\* once for each reply whose first tool call names a registered tool and at no
\* other time; the bound being positive, it has received exactly iteration_bound
\* replies, so that is at most iteration_bound invocations, and iteration_bound
\* of them when every reply carried such a tool call.
C2_AtMostBound ==
  HitBound =>
    /\ Len(requests) = maxIter /\ Len(replies) = maxIter
    /\ Len(toolLog) = Cardinality({k \in 1..Len(replies) : NamesRegisteredTool(replies[k])})
    /\ Len(toolLog) <= maxIter
    /\ toolsDone = Len(toolLog)
    /\ (\A k \in 1..Len(replies) : NamesRegisteredTool(replies[k])) => Len(toolLog) = maxIter

\* C2 witness: a bound of three, hit with tool calls in every reply
C2_Witness == HitBound /\ maxIter = 3 /\ Len(toolLog) = 3

\* C3: Run terminates when the client and the tools always return; it issues
\* at most iteration_bound LLM requests per turn; and when every request was
\* answered and no reply was accepted as final, it fails with
\* "max iterations (<n>) reached", n the bound.
C3_Terminates ==
  /\ [](Len(requests) <= maxIter)
  /\ []((Returned /\ Len(replies) = Len(requests)
           /\ \A k \in 1..Len(replies) : ~IsFinalReply(replies[k]))
          => ret.err = <<"max iterations (", ToString(maxIter), ") reached">>)
  /\ (InRun ~> pc = "idle")

\* C3 witness: the bound of three was exhausted without a tool
C3_Witness ==
  /\ HitBound /\ maxIter = 3
  /\ Len(requests) = 3
  /\ toolLog = << >>

\* C4: a failing tool call does not abort Run.  An unknown name reaches no
\* tool and reads "Error: unknown tool: <name>", a failing tool reads "Error: "
\* and its error message; that text ends the tool-role message that ends the
\* next LLM request; and Run returns the final answer that follows.
C4_ToolErrorsReachModel ==
  /\ \A k \in 1..Len(results) :
       LET e == results[k] IN
         e.err # NoErr =>
           /\ Len(requests) >= e.iter + 2 =>
                Last(requests[e.iter + 2]) = Message("tool", SeenText(e))
           /\ Returned => ret.err # e.err /\ ret.err # <<"Error", CL, SP>> \o e.err
  /\ \A k \in 1..Len(toolLog) : toolLog[k].Name \in DOMAIN tools
  /\ Len(toolLog) = Cardinality({k \in 1..Len(results) : results[k].known})
                      + (IF pc = "tool" THEN 1 ELSE 0)
  /\ (Returned /\ replies # << >> /\ Len(replies) = Len(requests)
        /\ IsFinalReply(Last(replies)))
       => (ret.err = NoErr /\ ret.val = Last(replies).Content)

\* C4 witness: an unknown tool, then a failing tool, then the final answer
C4_Witness ==
  /\ Returned /\ ret.err = NoErr
  /\ Len(results) = 2
  /\ ~results[1].known
  /\ results[2].known /\ results[2].err # NoErr
  /\ Len(toolLog) = 1
  /\ ret.val = Last(replies).Content

\* C5: whenever Run returns an error, the history is the history at entry
\* plus the one user message of the turn; no assistant message was added.
C5_ErrorKeepsUserOnly ==
  (Returned /\ ret.err # NoErr) =>
    /\ Len(history) = Len(entry) + 1
    /\ SubSeq(history, 1, Len(entry)) = entry
    /\ Last(history).Role = "user"

\* C5 witness: in a second turn the backend fails after a tool call
C5_Witness ==
  /\ Returned /\ ret.err # NoErr /\ ret.err # MaxIterErr(maxIter)
  /\ entry # << >>
  /\ Len(replies) = 1 /\ Len(toolLog) = 1

\* C9: each iteration issues one LLM request and then invokes at most one
\* tool, the first tool call of the reply; no other tool call of the reply is
\* invoked; and no request is issued while a tool call has not returned.
C9_OneRequestOneTool ==
  /\ pc = "loop" => (Len(requests) = i /\ Len(replies) = i)
  /\ pc = "llm" => (Len(requests) = i + 1 /\ Len(replies) = i)
  /\ pc = "tool" => (Len(requests) = i + 1 /\ Len(replies) = i + 1)
  /\ toolLog = FirstCalls(replies)
  /\ toolsDone = Len(toolLog) - (IF pc = "tool" THEN 1 ELSE 0)

\* C9 witness: in the second iteration a reply with two tool calls; the first
\* of them is running
C9_Witness ==
  /\ pc = "tool"
  /\ i = 1
  /\ Len(resp.ToolCalls) = 2
  /\ Last(toolLog) = resp.ToolCalls[1]
  /\ toolsDone = 1

\* C10: within a turn every request's message list extends the previous one by
\* the assistant reply and, after a tool call, its tool-role message; so the
\* tool results appear in every request in the order in which they were made.
C10_RequestsExtend ==
  /\ \A k \in 1..(Len(requests) - 1) :
       LET a   == requests[k]
           b   == requests[k + 1]
           ext == SubSeq(b, Len(a) + 1, Len(b))
       IN /\ IsPrefix(a, b)
          /\ Len(ext) = IF replies[k].ToolCalls # << >> THEN 2 ELSE 1
          /\ ext[1] = Message("assistant", replies[k].Content)
          /\ Len(ext) = 2 => ext[2].Role = "tool"
  /\ \A k \in 1..Len(requests) :
       LET seen == OfRole(requests[k], "tool") IN
         /\ Len(seen) <= Len(results)
         /\ \A j \in 1..Len(seen) : seen[j].Content = SeenText(results[j])

\* C10 witness: the third request of a turn carries two tool results
C10_Witness ==
  /\ pc = "llm"
  /\ Len(requests) = 3
  /\ Len(OfRole(Last(requests), "tool")) = 2
  /\ results[1].Name # results[2].Name

\* ------------------------------------------------------------------ C11
\* what the operations since New or the last ClearHistory have left as history,
\* told from the last operation and what it returned
LeftByLastOp ==
  IF ret.op = "Run"
  THEN entry \o <<Last(requests[1])>> \o
         (IF ret.err = NoErr THEN <<Message("assistant", ret.val)>> ELSE << >>)
  ELSE << >>

\* C11: the first LLM request of every turn is the system prompt, then the
\* history H accumulated since New or since the last ClearHistory, then the
\* user message of the turn; right after ClearHistory H is empty, so that no
\* message of an earlier turn is sent again.
C11_FirstRequest ==
  /\ [](Len(requests) >= 1 =>
          /\ Len(requests[1]) = Len(entry) + 2
          /\ requests[1][1] = Message("system", systemPrompt)
          /\ SubSeq(requests[1], 2, Len(entry) + 1) = entry
          /\ Last(requests[1]).Role = "user"
          /\ Last(requests[1]).Content \in UserInputs
          /\ \A k \in 1..Len(entry) : entry[k].Role \in {"user", "assistant"})
  /\ [][(pc = "idle" /\ pc' = "loop") => entry' = LeftByLastOp]_vars

\* C11 witness: a turn, ClearHistory, and the first request of the next turn
C11_Witness ==
  /\ pc = "llm"
  /\ runs = 2 /\ fails = 0 /\ cleared
  /\ Len(requests) = 1
  /\ requests[1] = <<Message("system", systemPrompt), Last(history)>>

\* ------------------------------------------------------------------ C12
\* the tool call that the parser emitted, when it emitted one
Emitted == pPc = "parsed" /\ pReply.ToolCalls # << >>

\* C12 as stated: every tool call that the parser emits has a non-empty name
\* and a non-null arguments mapping (an empty one when the object carries
\* neither `parameters` nor `params`).
C12_NeverNull ==
  Emitted => \A k \in 1..Len(pReply.ToolCalls) :
               /\ pReply.ToolCalls[k].Name # << >>
               /\ ~pReply.ToolCalls[k].Params.nil

\* C12 amended: every tool call that the parser emits has a non-empty name,
\* the first non-empty of `name` and `tool`, and its arguments are the first
\* non-null of `parameters` and `params`: null when the object carries neither
\* key, or null under both.
C12_FirstNonNull ==
  Emitted =>
    /\ Len(pReply.ToolCalls) = 1
    /\ pReply.ToolCalls[1].Name # << >>
    /\ (pBuilt.body.kind = "call" /\ FirstBraceIn(pBuilt) = "body") =>
         LET has == pBuilt.body.has
             tc  == pReply.ToolCalls[1]
         IN /\ tc.Name = IF has.name # << >> THEN has.name ELSE has.tool
            /\ tc.Params = IF ~has.parameters.nil THEN has.parameters ELSE has.params
            /\ tc.Params.nil <=> (has.parameters.nil /\ has.params.nil)

\* C12 witness: both names and both argument keys, `parameters` null
C12_Witness ==
  /\ Emitted
  /\ FirstBraceIn(pBuilt) = "body"
  /\ pBuilt.body.has.name = << >> /\ pBuilt.body.has.tool # << >>
  /\ pBuilt.body.has.parameters.nil /\ ~pBuilt.body.has.params.nil
  /\ pReply.ToolCalls[1].Params.keys = {<<"host">>}

\* ======================================================================
\* findMatchingBrace on its own
\* ======================================================================
\* valid JSON objects: those of the parser's replies and of
\* TestFindMatchingBrace, and strings that end in an escaped backslash or hold
\* an escaped quote next to a brace
ValidObjects ==
  {b.text : b \in CallBodies} \cup
  { EmptyObj,
    Obj(KV("parameters", Obj(KV("command", Q("ls"))))),
    Obj(KV("name", <<"1">>)),
    Obj(KV("name", Q("shell")) \o <<CM>> \o KV("parameters", <<LK>> \o Q("ls") \o <<RK>>)),
    \* {"key": "value with { and }"}
    Obj(KV("key", <<QT, "value", SP, "with", SP, LB, SP, "and", SP, RB, QT>>)),
    \* {"key": "value with \"escaped\""}
    Obj(KV("key", <<QT, "value", SP, "with", SP, BS, QT, "escaped", BS, QT, QT>>)),
    \* {"a": {"b": {"c": {"d": "e"}}}}
    Obj(KV("a", Obj(KV("b", Obj(KV("c", Obj(KV("d", Q("e"))))))))),
    \* {"k": "a\\"}
    Obj(KV("k", <<QT, "a", BS, BS, QT>>)),
    \* {"k": "\"}"}
    Obj(KV("k", <<QT, BS, QT, RB, QT>>)),
    \* {"k": "\\", "j": {"x": "}{"}}
    Obj(KV("k", <<QT, BS, BS, QT>>) \o <<CM, SP>> \o
        KV("j", Obj(KV("x", <<QT, RB, LB, QT>>)))) }

\* texts that do not start with "{"
NoBraceFirst ==
  { << >>,
    <<"key", CL, SP, "value", RB>>,
    <<SP>> \o EmptyObj,
    <<LK>> \o EmptyObj \o <<RK>>,
    <<RB, LB>>,
    <<QT, LB, RB, QT>> }

\* an object, an object cut short before its closing brace, a text that does
\* not start with "{"
BraceInputs ==
  {[fn |-> "findMatchingBrace", class |-> "object", text |-> t] : t \in ValidObjects}
  \cup UNION {{[fn |-> "findMatchingBrace", class |-> "unclosed", text |-> SubSeq(t, 1, k)] :
                 k \in 1..(Len(t) - 1)} : t \in ValidObjects}
  \cup {[fn |-> "findMatchingBrace", class |-> "nobrace", text |-> t] : t \in NoBraceFirst}

BraceInit ==
  /\ IdleBut("fn")
  /\ fPc = "input"
  /\ fArg \in BraceInputs
  /\ fRes = << >>

\* findMatchingBrace(s)
BraceCall ==
  /\ fPc = "input"
  /\ fArg.fn = "findMatchingBrace"
  /\ fPc' = "returned"
  /\ fRes' = findMatchingBrace(fArg.text)
  /\ UNCHANGED fArg
  /\ UNCHANGED notFn

SpecBrace == BraceInit /\ [][BraceCall]_vars

\* C13: for every valid JSON object string s, findMatchingBrace(s) is
\* len(s) - 1; for the empty string, a string that does not start with "{" and
\* a string whose opening brace is never closed, it is -1.
C13_BraceRoundTrip ==
  (fPc = "returned" /\ fArg.fn = "findMatchingBrace") =>
    /\ fArg.class = "object" =>
         /\ jsonDocument(fArg.text).kind = "object"
         /\ fArg.text[1] = LB
         /\ fRes = Len(fArg.text) - 1
    /\ fArg.class \in {"unclosed", "nobrace"} => fRes = -1

\* C13 witness: an object with an escaped quote before a brace inside a string
C13_Witness ==
  /\ fPc = "returned" /\ fArg.fn = "findMatchingBrace"
  /\ fArg.class = "object"
  /\ \E k \in 1..(Len(fArg.text) - 2) :
       fArg.text[k] = BS /\ fArg.text[k + 1] = QT /\ fArg.text[k + 2] = RB
  /\ fRes = Len(fArg.text) - 1

\* ======================================================================
\* func main: the --mcp loop, the wiki, the agent, the REPL
\* ======================================================================
\* the most --mcp flags on a command line, and the most lines the REPL reads
MaxMcp == 2
MaxLines == 2

\* the --mcp specs: the text, and how it reads as [label:]target (the label,
\* empty when there is none, and the target)
McpSpecs == {
  \* fs:server /tmp
  [text |-> <<"fs", CL, "server", SP, "/tmp">>,
   label |-> <<"fs">>, target |-> <<"server", SP, "/tmp">>],
  \* fs:other /srv      (the label of another spec)
  [text |-> <<"fs", CL, "other", SP, "/srv">>,
   label |-> <<"fs">>, target |-> <<"other", SP, "/srv">>],
  \* k8s: kube          (a blank after the colon)
  [text |-> <<"k8s", CL, SP, "kube">>, label |-> <<"k8s">>, target |-> <<"kube">>],
  \* web:https://host/sse
  [text |-> <<"web", CL, "https", CL, "//host/sse">>,
   label |-> <<"web">>, target |-> <<"https", CL, "//host/sse">>],
  \* x:                 (a label and nothing to run)
  [text |-> <<"x", CL, SP>>, label |-> <<"x">>, target |-> << >>],
  \* server --port 1
  [text |-> <<"server", SP, "--port", SP, "1">>,
   label |-> << >>, target |-> <<"server", SP, "--port", SP, "1">>],
  \* https://host/sse
  [text |-> <<"https", CL, "//host/sse">>,
   label |-> << >>, target |-> <<"https", CL, "//host/sse">>],
  \* http://host
  [text |-> <<"http", CL, "//host">>, label |-> << >>, target |-> <<"http", CL, "//host">>],
  \* :server            (nothing before the colon)
  [text |-> <<CL, "server">>, label |-> << >>, target |-> <<CL, "server">>]
}

\* the name of an unlabelled spec counted from the index itself
autoNameIndex(index) ==
  IF index = 0 THEN <<"mcp">> ELSE <<"mcp", ToString(index)>>

\* lines 42-45: "mcp" for index 0, fmt.Sprintf("mcp%d", index+1) otherwise
autoName(index) ==
  IF index = 0 THEN <<"mcp">> ELSE <<"mcp", ToString(index + 1)>>

\* parseMCPSpec(spec, index)
parseMCPSpec(spec, index) ==
  LET colon  == Index(spec, CL)
      prefix == Slice(spec, 0, colon)
  IN
    IF colon > 0 /\ prefix # <<"http">> /\ prefix # <<"https">>
    THEN [name   |-> <<"mcp_">> \o prefix,
          target |-> TrimSpace(Slice(spec, colon + 1, Len(spec)))]
    ELSE [name |-> autoName(index), target |-> spec]

\* line 73: strings.HasPrefix(target, "http://") || HasPrefix(target, "https://");
\* the words that follow the colon start with "//"
IsURL(target) ==
  /\ Len(target) >= 3
  /\ target[1] \in {"http", "https"}
  /\ target[2] = CL
  /\ target[3] \in {"//host/sse", "//host"}

\* line 76-77: len(strings.Fields(target)) == 0
NoFieldsIn(target) == \A k \in 1..Len(target) : IsSpace(target[k])

\* the command line: up to MaxMcp --mcp flags, --wiki, --index-only
MainInit ==
  /\ IdleBut("main")
  /\ mPc = "mcp"
  /\ \E n \in 0..MaxMcp :
       \E specs \in [1..n -> McpSpecs] :
         \E w \in BOOLEAN, o \in BOOLEAN :
           mFlags = [mcp |-> specs, wiki |-> w, indexOnly |-> o]
  /\ mI = 0
  /\ mNames = << >>
  /\ toolList = <<<<"ssh">>, <<"shell">>>>
  /\ mBuilt = << >>
  /\ mDefers = << >>
  /\ mClosed = << >>
  /\ mLines = 0
  /\ mExit = ""

\* llm.BuildSystemPrompt, the "WHEN TO USE TOOLS" lines of the prompt built
\* for toolDefs: the tool each line routes to. The four lines are literal
\* text of the prompt, whatever the tool descriptors are.
routingLines(toolDefs) == <<<<"ssh">>, <<"shell">>, <<"mcp">>, <<"wiki">>>>

\* os.Exit(1): the process ends at once; deferred calls do not run
OsExit ==
  /\ mPc' = "exited"
  /\ mExit' = "os.Exit(1)"

\* the spec at hand, parsed (line 68)
SpecAtHand == parseMCPSpec(mFlags.mcp[mI + 1].text, mI)

\* lines 76-80: a stdio target without a command
McpInvalid ==
  /\ mPc = "mcp" /\ mI < Len(mFlags.mcp)
  /\ ~IsURL(SpecAtHand.target) /\ NoFieldsIn(SpecAtHand.target)
  /\ mNames' = Append(mNames, SpecAtHand)
  /\ OsExit
  /\ UNCHANGED <<mFlags, mI, toolList, mBuilt, mDefers, mClosed, mLines>>
  /\ UNCHANGED notMain

\* lines 83-86: the server does not connect
McpFails ==
  /\ mPc = "mcp" /\ mI < Len(mFlags.mcp)
  /\ IsURL(SpecAtHand.target) \/ ~NoFieldsIn(SpecAtHand.target)
  /\ mNames' = Append(mNames, SpecAtHand)
  /\ OsExit
  /\ UNCHANGED <<mFlags, mI, toolList, mBuilt, mDefers, mClosed, mLines>>
  /\ UNCHANGED notMain

\* lines 87-89: the tool is constructed, its Close deferred, the tool listed
McpConnects ==
  /\ mPc = "mcp" /\ mI < Len(mFlags.mcp)
  /\ IsURL(SpecAtHand.target) \/ ~NoFieldsIn(SpecAtHand.target)
  /\ mNames' = Append(mNames, SpecAtHand)
  /\ mBuilt' = Append(mBuilt, mI)
  /\ mDefers' = Append(mDefers, mI)
  /\ toolList' = Append(toolList, SpecAtHand.name)
  /\ mI' = mI + 1
  /\ UNCHANGED <<mPc, mFlags, mClosed, mLines, mExit>>
  /\ UNCHANGED notMain

\* the loop over --mcp ends
McpDone ==
  /\ mPc = "mcp" /\ mI = Len(mFlags.mcp)
  /\ mPc' = "wiki"
  /\ UNCHANGED <<mFlags, mI, mNames, toolList, mBuilt, mDefers, mClosed, mLines, mExit>>
  /\ UNCHANGED notMain

\* line 93: no --wiki
WikiNone ==
  /\ mPc = "wiki" /\ ~mFlags.wiki
  /\ mPc' = "agent"
  /\ UNCHANGED <<mFlags, mI, mNames, toolList, mBuilt, mDefers, mClosed, mLines, mExit>>
  /\ UNCHANGED notMain

\* lines 98-110: rag.NewIndexer or indexer.Index fails
IndexFails ==
  /\ mPc = "wiki" /\ mFlags.wiki
  /\ OsExit
  /\ UNCHANGED <<mFlags, mI, mNames, toolList, mBuilt, mDefers, mClosed, mLines>>
  /\ UNCHANGED notMain

\* lines 112-115: --index-only: main returns
IndexOnly ==
  /\ mPc = "wiki" /\ mFlags.wiki /\ mFlags.indexOnly
  /\ mPc' = "returning"
  /\ UNCHANGED <<mFlags, mI, mNames, toolList, mBuilt, mDefers, mClosed, mLines, mExit>>
  /\ UNCHANGED notMain

\* lines 118-120: the wiki tool is listed
WikiEnabled ==
  /\ mPc = "wiki" /\ mFlags.wiki /\ ~mFlags.indexOnly
  /\ toolList' = Append(toolList, <<"wiki">>)
  /\ mPc' = "agent"
  /\ UNCHANGED <<mFlags, mI, mNames, mBuilt, mDefers, mClosed, mLines, mExit>>
  /\ UNCHANGED notMain

\* lines 127-135: agent.New fails
AgentFails ==
  /\ mPc = "agent"
  /\ OsExit
  /\ UNCHANGED <<mFlags, mI, mNames, toolList, mBuilt, mDefers, mClosed, mLines>>
  /\ UNCHANGED notMain

\* agent.New succeeds: the REPL starts
AgentCreated ==
  /\ mPc = "agent"
  /\ mPc' = "repl"
  /\ UNCHANGED <<mFlags, mI, mNames, toolList, mBuilt, mDefers, mClosed, mLines, mExit>>
  /\ UNCHANGED notMain

\* lines 147-176: an empty line, /clear, /help or a prompt: the loop goes on
ReplLine ==
  /\ mPc = "repl" /\ mLines < MaxLines
  /\ mLines' = mLines + 1
  /\ UNCHANGED <<mPc, mFlags, mI, mNames, toolList, mBuilt, mDefers, mClosed, mExit>>
  /\ UNCHANGED notMain

\* lines 153-155: quit, exit, /exit: main returns
ReplQuit ==
  /\ mPc = "repl" /\ mLines < MaxLines
  /\ mLines' = mLines + 1
  /\ mPc' = "returning"
  /\ UNCHANGED <<mFlags, mI, mNames, toolList, mBuilt, mDefers, mClosed, mExit>>
  /\ UNCHANGED notMain

\* lines 143-145, 179-182: end of input or a read error: main returns
ReplEnd ==
  /\ mPc = "repl"
  /\ mPc' = "returning"
  /\ UNCHANGED <<mFlags, mI, mNames, toolList, mBuilt, mDefers, mClosed, mLines, mExit>>
  /\ UNCHANGED notMain

\* main has returned: the deferred calls run, the last deferred first
DeferredClose ==
  /\ mPc = "returning" /\ mDefers # << >>
  /\ mClosed' = Append(mClosed, mDefers[Len(mDefers)])
  /\ mDefers' = SubSeq(mDefers, 1, Len(mDefers) - 1)
  /\ UNCHANGED <<mPc, mFlags, mI, mNames, toolList, mBuilt, mLines, mExit>>
  /\ UNCHANGED notMain

\* no deferred call is left: the process ends
MainReturned ==
  /\ mPc = "returning" /\ mDefers = << >>
  /\ mPc' = "exited"
  /\ mExit' = "return"
  /\ UNCHANGED <<mFlags, mI, mNames, toolList, mBuilt, mDefers, mClosed, mLines>>
  /\ UNCHANGED notMain

MainNext ==
  \/ McpInvalid \/ McpFails \/ McpConnects \/ McpDone
  \/ WikiNone \/ IndexFails \/ IndexOnly \/ WikiEnabled
  \/ AgentFails \/ AgentCreated
  \/ ReplLine \/ ReplQuit \/ ReplEnd
  \/ DeferredClose \/ MainReturned

SpecMain == MainInit /\ [][MainNext]_vars

\* ------------------------------------------------------------------ C14
\* C14: on every path by which the process ends after an MCP tool has been
\* constructed (exit command, end of input, --index-only, and the startup
\* failures: a later MCP server not connecting, the indexer failing, agent
\* creation failing), Close has been called on every constructed MCP tool.
C14_ClosedOnEveryExit ==
  (mPc = "exited" /\ mBuilt # << >>) =>
    \A k \in 1..Len(mBuilt) : \E j \in 1..Len(mClosed) : mClosed[j] = mBuilt[k]

\* ------------------------------------------------------------------ C15
\* how many of the first k specs of the command line carry no label
UnlabelledUpTo(k) == Cardinality({j \in 1..k : mFlags.mcp[j].label = << >>})

\* the text after the first colon
AfterColon(text) == SubSeq(text, Index(text, CL) + 2, Len(text))

\* C15 as stated: a spec label:target gets the name mcp_<label> and the text
\* after the first colon as target; among the unlabelled specs the first is
\* named mcp and the following ones mcp2, mcp3, ... in order.
C15_UnlabelledInOrder ==
  \A k \in 1..Len(mNames) :
    LET spec == mFlags.mcp[k] IN
      IF spec.label # << >>
      THEN /\ mNames[k].name = <<"mcp_">> \o spec.label
           /\ mNames[k].target = AfterColon(spec.text)
      ELSE mNames[k].name = IF UnlabelledUpTo(k) = 1 THEN <<"mcp">>
                            ELSE <<"mcp", ToString(UnlabelledUpTo(k))>>

\* C15 amended: a spec label:target with a label other than http and https
\* gets the name mcp_<label> and, as target, the text after the first colon
\* without the blanks around it; an unlabelled spec is named after its place
\* in the whole list: mcp when it comes first, mcp<k> when it is the k-th.
C15_ByPosition ==
  \A k \in 1..Len(mNames) :
    LET spec == mFlags.mcp[k] IN
      IF spec.label # << >>
      THEN /\ mNames[k].name = <<"mcp_">> \o spec.label
           /\ mNames[k].target = spec.target
           /\ mNames[k].target = TrimSpace(AfterColon(spec.text))
      ELSE /\ mNames[k].name = IF k = 1 THEN <<"mcp">> ELSE <<"mcp", ToString(k)>>
           /\ mNames[k].target = spec.text

\* C15 witness: a labelled spec, then an unlabelled one: mcp_k8s, mcp2
C15_Witness ==
  /\ Len(mNames) = 2
  /\ mFlags.mcp[1].label = <<"k8s">> /\ mFlags.mcp[2].label = << >>
  /\ mNames[1] = [name |-> <<"mcp_", "k8s">>, target |-> <<"kube">>]
  /\ mNames[2].name = <<"mcp", "2">>
  /\ IsURL(mNames[2].target)

\* ------------------------------------------------------------------ C16
\* a tool name that starts with mcp
IsMcpName(n) == n # << >> /\ n[1] \in {"mcp", "mcp_"}

\* the MCP tools that the routing lines of a prompt name
McpRouted(lines) ==
  {lines[k] : k \in {j \in 1..Len(lines) : IsMcpName(lines[j])}}

\* the MCP tools among the registered ones
McpRegistered(names) ==
  {names[k] : k \in {j \in 1..Len(names) : IsMcpName(names[j])}}

\* C16: once the agent is built from the registered tools, the MCP routing
\* line of its system prompt names exactly the registered tools whose name
\* starts with mcp, and names none when no MCP tool is registered.
C16_RoutingNamesRegistered ==
  mPc = "repl" =>
    McpRouted(routingLines(toolList)) = McpRegistered(toolList)

\* ======================================================================
\* tools.ShellTool.Call
\* ======================================================================
\* what the child process leaves behind: stdout, stderr, and how Run ended:
\* "ok" (err == nil), "exit" (err != nil, the deadline not expired),
\* "deadline" (err != nil and ctx.Err() == context.DeadlineExceeded)
Stdouts == {<< >>, <<"out">>, <<"out", NL>>}
Stderrs == {<< >>, <<"warn", NL>>}
RunErr == <<"exit status 1">>
ShellRuns ==
  [stdout : Stdouts, stderr : Stderrs, outcome : {"ok", "exit", "deadline"}]

\* the command argument: absent, of another type than string, or a string
ShellParams ==
  {[has |-> FALSE, isString |-> FALSE, command |-> << >>],
   [has |-> TRUE, isString |-> FALSE, command |-> << >>],
   [has |-> TRUE, isString |-> TRUE, command |-> << >>],
   [has |-> TRUE, isString |-> TRUE, command |-> <<"ls">>]}

\* a tool's return: the text, the error (NoErr for nil), and whether a
\* process was started
ToolReturn(val, err, ran) == [val |-> val, err |-> err, ran |-> ran]

\* lines 38-39: command, ok := params["command"].(string); !ok || command == ""
commandRejectedMissing(params) == ~(params.has /\ params.isString)
commandRejected(params) ==
  ~(params.has /\ params.isString) \/ params.command = << >>

\* lines 58-64: stdout, then the STDERR banner and stderr
shellOutput(stdout, stderr) ==
  IF stderr # << >>
  THEN (IF stdout # << >> THEN stdout \o <<NL>> ELSE stdout)
         \o <<"STDERR", CL, NL>> \o stderr
  ELSE stdout

shellReportErr(output, outcome) ==
  IF outcome = "ok" THEN ToolReturn(output, NoErr, TRUE)
  ELSE ToolReturn(<< >>, RunErr, TRUE)

\* lines 66-79: what Call returns for the joined output and the way Run ended
shellReport(output, outcome) ==
  IF outcome # "ok"
  THEN IF outcome = "deadline"
       THEN ToolReturn(output \o <<NL, "Error", CL, SP, "command timed out">>,
                       NoErr, TRUE)
       ELSE ToolReturn(
              (IF output = << >> THEN <<"(command produced no output)", NL>>
               ELSE output)
                \o <<"Command exited with status", CL, SP>> \o RunErr
                \o <<SP, "(note: grep returns status 1 ...)">>,
              NoErr, TRUE)
  ELSE IF output = << >>
       THEN ToolReturn(<<"(command succeeded but produced no output)">>, NoErr, TRUE)
       ELSE ToolReturn(output, NoErr, TRUE)

\* ShellTool.Call(ctx, params), the child process ending as run says
ShellToolCall(params, run) ==
  IF commandRejected(params)
  THEN ToolReturn(<< >>, <<"command parameter required">>, FALSE)
  ELSE shellReport(shellOutput(run.stdout, run.stderr), run.outcome)

ShellInit ==
  /\ IdleBut("fn")
  /\ fPc = "input"
  /\ fArg \in [fn : {"ShellTool.Call"}, params : ShellParams, run : ShellRuns]
  /\ fRes = << >>

ShellCall ==
  /\ fPc = "input"
  /\ fArg.fn = "ShellTool.Call"
  /\ fPc' = "returned"
  /\ fRes' = ShellToolCall(fArg.params, fArg.run)
  /\ UNCHANGED fArg
  /\ UNCHANGED notFn

SpecShell == ShellInit /\ [][ShellCall]_vars

\* ------------------------------------------------------------------ C17
ShellReturned == fPc = "returned" /\ fArg.fn = "ShellTool.Call"

\* C17: ShellTool.Call returns an error only when the command argument is
\* missing, not a string, or empty: the error is "command parameter
\* required" and no process is started. Every other call returns a nil
\* error: a non-zero exit is reported in the text as "Command exited with
\* status: <detail>", an expired deadline as "Error: command timed out", and
\* the text is "(command succeeded but produced no output)" exactly when the
\* command succeeded with empty stdout and empty stderr.
C17_ShellErrorsInText ==
  ShellReturned =>
    LET bad == \/ ~fArg.params.has \/ ~fArg.params.isString
               \/ fArg.params.command = << >>
        run == fArg.run
    IN  /\ bad => /\ fRes.err = <<"command parameter required">>
                  /\ ~fRes.ran /\ fRes.val = << >>
        /\ ~bad =>
             /\ fRes.err = NoErr /\ fRes.ran
             /\ run.outcome = "exit" <=>
                  Contains(fRes.val, <<"Command exited with status", CL, SP>> \o RunErr)
             /\ run.outcome = "deadline" <=>
                  Contains(fRes.val, <<"Error", CL, SP, "command timed out">>)
             /\ fRes.val = <<"(command succeeded but produced no output)">> <=>
                  (run.outcome = "ok" /\ run.stdout = << >> /\ run.stderr = << >>)
             /\ IsPrefix(run.stdout, fRes.val)
             /\ run.stderr # << >> => Contains(fRes.val, <<"STDERR", CL, NL>> \o run.stderr)

\* C17 witness: a command that exits non-zero with only stderr: nil error
C17_Witness ==
  /\ ShellReturned
  /\ fArg.params.command = <<"ls">>
  /\ fArg.run = [stdout |-> << >>, stderr |-> <<"warn", NL>>, outcome |-> "exit"]
  /\ fRes.err = NoErr
  /\ fRes.val[1] = "STDERR"

\* ======================================================================
\* tools.MCPTool.Call
\* ======================================================================
\* the sub-tools a server lists at construction (NewMCPTool: toolMap)
McpToolMaps == {{}, {"read"}, {"read", "list"}}

\* params: tool_name absent, of another type, or a string; arguments absent,
\* of another type, or a map
McpParams ==
  [toolName : {[has |-> FALSE, isString |-> FALSE, str |-> ""],
               [has |-> TRUE, isString |-> FALSE, str |-> ""],
               [has |-> TRUE, isString |-> TRUE, str |-> ""],
               [has |-> TRUE, isString |-> TRUE, str |-> "read"],
               [has |-> TRUE, isString |-> TRUE, str |-> "list"],
               [has |-> TRUE, isString |-> TRUE, str |-> "drop"]},
   arguments : {"absent", "string", "map"}]

\* the parts of a result's Content: text parts and parts of another kind
TextPart(t) == [type |-> "text", text |-> t]
ImagePart == [type |-> "image", text |-> << >>]
McpContents ==
  {<< >>, <<TextPart(<<"a">>)>>, <<TextPart(<<"a">>), TextPart(<<"b">>)>>,
   <<ImagePart>>, <<TextPart(<< >>)>>, <<ImagePart, TextPart(<<"a">>)>>}

\* what the server answers to CallTool: a transport error, or a result
McpResponses ==
  [failed : {TRUE}, IsError : {FALSE}, Content : {<< >>}]
    \cup [failed : {FALSE}, IsError : BOOLEAN, Content : McpContents]

\* line 416: toolName, _ := params["tool_name"].(string)
mcpToolName(params) ==
  IF params.toolName.has /\ params.toolName.isString
  THEN params.toolName.str ELSE ""

inToolMapAny(toolMap, toolName) == TRUE

\* line 421: _, ok := m.toolMap[toolName]
inToolMap(toolMap, toolName) == toolName \in toolMap

\* lines 430-435: the arguments forwarded: the map, or nil
mcpArguments(params) == IF params.arguments = "map" THEN "map" ELSE "nil"

\* lines 446-457: the texts of the text parts, joined with "\n"
RECURSIVE joinText(_)
joinText(content) ==
  IF content = << >> THEN [n |-> 0, text |-> << >>]
  ELSE LET rest == joinText(Tail(content))
           part == Head(content)
       IN  IF part.type # "text" THEN rest
           ELSE [n |-> rest.n + 1,
                 text |-> IF rest.n = 0 THEN part.text
                          ELSE part.text \o <<NL>> \o rest.text]

\* lines 441-467: the request is sent and the answer turned into the return
mcpForward(toolName, arguments, response) ==
  LET sent == <<[Name |-> toolName, Arguments |-> arguments]>>
      output == joinText(response.Content).text
  IN  IF response.failed
      THEN [val |-> << >>, sent |-> sent,
            err |-> <<"MCP call", SP, toolName, SP, "failed", CL, SP, "transport">>]
      ELSE IF response.IsError
      THEN [val |-> << >>, sent |-> sent,
            err |-> <<"MCP tool", SP, toolName, SP, "error", CL, SP>> \o output]
      ELSE IF output = << >>
      THEN [val |-> <<"(no output)">>, err |-> NoErr, sent |-> sent]
      ELSE [val |-> output, err |-> NoErr, sent |-> sent]

\* MCPTool.Call(ctx, params) on a tool with the cache toolMap, the server
\* answering a forwarded request with response
MCPToolCall(toolMap, params, response) ==
  IF mcpToolName(params) = ""
  THEN [val |-> << >>, err |-> <<"tool_name parameter required">>, sent |-> << >>]
  ELSE IF ~inToolMap(toolMap, mcpToolName(params))
  THEN [val |-> << >>, sent |-> << >>,
        err |-> <<"unknown MCP tool", SP, mcpToolName(params)>>]
  ELSE mcpForward(mcpToolName(params), mcpArguments(params), response)

McpInit ==
  /\ IdleBut("fn")
  /\ fPc = "input"
  /\ fArg \in [fn : {"MCPTool.Call"}, toolMap : McpToolMaps,
               params : McpParams, response : McpResponses]
  /\ fRes = << >>

McpCall ==
  /\ fPc = "input"
  /\ fArg.fn = "MCPTool.Call"
  /\ fPc' = "returned"
  /\ fRes' = MCPToolCall(fArg.toolMap, fArg.params, fArg.response)
  /\ UNCHANGED fArg
  /\ UNCHANGED notFn

SpecMcp == McpInit /\ [][McpCall]_vars

\* ------------------------------------------------------------------ C18
McpReturned == fPc = "returned" /\ fArg.fn = "MCPTool.Call"

\* the tool_name argument is one of the sub-tools cached at construction
NamesCached ==
  /\ fArg.params.toolName.has /\ fArg.params.toolName.isString
  /\ fArg.params.toolName.str \in fArg.toolMap

\* the texts of the response's text parts
PartTexts ==
  {fArg.response.Content[k].text :
     k \in {j \in 1..Len(fArg.response.Content) :
              fArg.response.Content[j].type = "text"}}

\* C18: MCPTool.Call sends a CallTool request only when tool_name is one of
\* the cached sub-tools; a missing or unknown tool_name gives an error and no
\* request; a response with the error flag gives an error that holds the
\* response text; a successful response without text gives "(no output)".
C18_McpValidatesThenForwards ==
  McpReturned =>
    /\ fRes.sent # << >> <=> NamesCached
    /\ ~NamesCached => fRes.err # NoErr /\ fRes.val = << >>
    /\ NamesCached => /\ Len(fRes.sent) = 1
                      /\ fRes.sent[1].Name = fArg.params.toolName.str
    /\ (NamesCached /\ ~fArg.response.failed /\ fArg.response.IsError) =>
         /\ fRes.err # NoErr /\ fRes.val = << >>
         /\ \A t \in PartTexts : Contains(fRes.err, t)
    /\ (NamesCached /\ ~fArg.response.failed /\ ~fArg.response.IsError
          /\ PartTexts = {}) =>
         fRes.err = NoErr /\ fRes.val = <<"(no output)">>

\* C18 witness: a cached sub-tool is called and the server flags an error
C18_Witness ==
  /\ McpReturned /\ NamesCached
  /\ fArg.response.IsError
  /\ fArg.response.Content = <<TextPart(<<"a">>), TextPart(<<"b">>)>>
  /\ Len(fRes.sent) = 1
  /\ Contains(fRes.err, <<"a", NL, "b">>)

\* ======================================================================
\* tools.SSHTool.Call
\* ======================================================================
\* how far the connection gets: dialWithAuth fails, NewSession fails, or the
\* session runs the command
SshConns == {"dialFails", "sessionFails", "ok"}

\* session.Run ends with err == nil or with an error; there is no deadline
SshRuns == {r \in ShellRuns : r.outcome # "deadline"}

\* the host argument: absent or not a string, or a string
SshHosts == {[isString |-> FALSE, host |-> << >>], [isString |-> TRUE, host |-> <<"h">>]}

\* lines 83-86: stdout, then the STDERR banner and stderr
sshOutput(stdout, stderr) ==
  IF stderr # << >>
  THEN stdout \o <<NL, "STDERR", CL, NL>> \o stderr
  ELSE stdout

\* lines 89-96: what Call returns for the joined output and the way Run ended
sshReport(output, outcome) ==
  IF outcome # "ok"
  THEN ToolReturn(
         (IF output = << >> THEN <<"(command produced no output)", NL>>
          ELSE output)
           \o <<"Command exited with status", CL, SP>> \o RunErr
           \o <<SP, "(note: grep returns status 1 ...)">>,
         NoErr, TRUE)
  ELSE IF output = << >>
       THEN ToolReturn(<<"(command succeeded but produced no output)">>, NoErr, TRUE)
       ELSE ToolReturn(output, NoErr, TRUE)

\* SSHTool.Call(ctx, params), the connection getting as far as conn says and
\* the remote command ending as run says
SSHToolCall(host, params, conn, run) ==
  IF ~host.isString
  THEN ToolReturn(<< >>, <<"host parameter required">>, FALSE)
  ELSE IF ~(params.has /\ params.isString)
  THEN ToolReturn(<< >>, <<"command parameter required">>, FALSE)
  ELSE IF conn = "dialFails"
  THEN ToolReturn(<< >>, <<"failed to connect to", SP>> \o host.host \o <<CL, "22">>, FALSE)
  ELSE IF conn = "sessionFails"
  THEN ToolReturn(<< >>, <<"failed to create session">>, FALSE)
  ELSE sshReport(sshOutput(run.stdout, run.stderr), run.outcome)

SshInit ==
  /\ IdleBut("fn")
  /\ fPc = "input"
  /\ fArg \in [fn : {"SSHTool.Call"}, host : SshHosts, params : ShellParams,
               conn : SshConns, run : SshRuns]
  /\ fRes = << >>

SshCall ==
  /\ fPc = "input"
  /\ fArg.fn = "SSHTool.Call"
  /\ fPc' = "returned"
  /\ fRes' = SSHToolCall(fArg.host, fArg.params, fArg.conn, fArg.run)
  /\ UNCHANGED fArg
  /\ UNCHANGED notFn

SpecSsh == SshInit /\ [][SshCall]_vars

\* ------------------------------------------------------------------ C19
\* the remote command was run
SshRan == fPc = "returned" /\ fArg.fn = "SSHTool.Call" /\ fRes.ran

\* C19: for the same captured stdout, the same captured stderr and the same
\* exit outcome (success or non-zero exit), the SSH tool returns exactly the
\* text that the shell tool returns.
C19_SshMirrorsShell ==
  SshRan =>
    fRes.val = shellReport(shellOutput(fArg.run.stdout, fArg.run.stderr),
                           fArg.run.outcome).val

\* ======================================================================
\* rag.VisionClient: DescribeImage, ClearCache
\* ======================================================================
\* the most calls made on one client
MaxDescribe == 3

\* image paths as given: two spellings of one file and another file
ImagePaths == {<<"a.png">>, <<"/", "w", "/", "a.png">>, <<"b.png">>}

\* filepath.Abs: a relative path is joined to the working directory
filepathAbs(path) ==
  IF path # << >> /\ path[1] = "/" THEN path ELSE <<"/", "w", "/">> \o path

\* what the vision model may say of an image
Descriptions == {<<"a chart">>, <<"a flow">>}

\* a map with one more entry
MapWith(m, k, v) == [x \in DOMAIN m \cup {k} |-> IF x = k THEN v ELSE m[x]]

\* the caches a cache file may hold when the client is constructed
LoadedCaches == {<< >>, MapWith(<< >>, filepathAbs(<<"b.png">>), <<"a flow">>)}

cacheAfterNone(cache, absPath, description) == cache

\* line 109: c.cache[absPath] = description
cacheAfter(cache, absPath, description) == MapWith(cache, absPath, description)

\* line 50: desc, ok := c.cache[absPath]
cacheHit(cache, absPath) == absPath \in DOMAIN cache

\* one entry of the log of calls
Described(path, val, err, called) ==
  [op |-> "DescribeImage", path |-> path, val |-> val, err |-> err,
   called |-> called]

\* NewVisionClient: an empty cache, then loadCache
VisionInit ==
  /\ IdleBut("vision")
  /\ vPc = "ready"
  /\ vCache \in LoadedCaches
  /\ vFile = (IF vCache = << >> THEN "none" ELSE vCache)
  /\ vCalls = << >>
  /\ vLog = << >>

\* lines 49-52: the path is in the cache
DescribeHit(path) ==
  /\ vPc = "ready" /\ Len(vLog) < MaxDescribe
  /\ cacheHit(vCache, filepathAbs(path))
  /\ vLog' = Append(vLog, Described(path, vCache[filepathAbs(path)], NoErr, FALSE))
  /\ UNCHANGED <<vPc, vCache, vFile, vCalls>>
  /\ UNCHANGED notVision

\* lines 55-58: the image cannot be read
DescribeReadFails(path) ==
  /\ vPc = "ready" /\ Len(vLog) < MaxDescribe
  /\ ~cacheHit(vCache, filepathAbs(path))
  /\ vLog' = Append(vLog, Described(path, << >>, <<"failed to read image">>, FALSE))
  /\ UNCHANGED <<vPc, vCache, vFile, vCalls>>
  /\ UNCHANGED notVision

\* lines 92-104: the backend is called and fails, or answers no choice
DescribeBackendFails(path) ==
  /\ vPc = "ready" /\ Len(vLog) < MaxDescribe
  /\ ~cacheHit(vCache, filepathAbs(path))
  /\ vCalls' = Append(vCalls, path)
  /\ \E e \in {<<"failed to generate description">>,
               <<"no response from vision model">>} :
       vLog' = Append(vLog, Described(path, << >>, e, TRUE))
  /\ UNCHANGED <<vPc, vCache, vFile>>
  /\ UNCHANGED notVision

\* lines 92-115: the backend answers; the description is cached and the
\* cache saved (saveCache ignores a failing write)
DescribeSucceeds(path) ==
  /\ vPc = "ready" /\ Len(vLog) < MaxDescribe
  /\ ~cacheHit(vCache, filepathAbs(path))
  /\ vCalls' = Append(vCalls, path)
  /\ \E d \in Descriptions :
       /\ vCache' = cacheAfter(vCache, filepathAbs(path), d)
       /\ vLog' = Append(vLog, Described(path, d, NoErr, TRUE))
  /\ \E written \in BOOLEAN : vFile' = IF written THEN vCache' ELSE vFile
  /\ UNCHANGED vPc
  /\ UNCHANGED notVision

\* ClearCache: a new empty map, the file removed
ClearCache ==
  /\ vPc = "ready" /\ Len(vLog) < MaxDescribe
  /\ vCache' = << >>
  /\ vFile' = "none"
  /\ vLog' = Append(vLog, [op |-> "ClearCache", path |-> << >>, val |-> << >>,
                           err |-> NoErr, called |-> FALSE])
  /\ UNCHANGED <<vPc, vCalls>>
  /\ UNCHANGED notVision

VisionNext ==
  \/ \E path \in ImagePaths :
       \/ DescribeHit(path)
       \/ DescribeReadFails(path)
       \/ DescribeBackendFails(path)
       \/ DescribeSucceeds(path)
  \/ ClearCache

SpecVision == VisionInit /\ [][VisionNext]_vars

\* ------------------------------------------------------------------ C20
\* the j-th and the k-th call describe the same path, the j-th first
SamePathTwice(j, k) ==
  /\ j < k
  /\ vLog[j].op = "DescribeImage" /\ vLog[k].op = "DescribeImage"
  /\ filepathAbs(vLog[j].path) = filepathAbs(vLog[k].path)

\* how many of the first k calls sent the path of the k-th to the backend
BackendCallsFor(k) ==
  Cardinality({m \in 1..k : /\ vLog[m].op = "DescribeImage"
                            /\ vLog[m].called
                            /\ filepathAbs(vLog[m].path) = filepathAbs(vLog[k].path)})

\* C20 as stated: describing the same image path twice in one run triggers
\* exactly one backend call: the second DescribeImage returns the cached
\* description without calling the backend.
C20_TwiceOneCall ==
  \A j, k \in 1..Len(vLog) :
    SamePathTwice(j, k) =>
      /\ ~vLog[k].called
      /\ vLog[k].err = NoErr
      /\ BackendCallsFor(k) = 1

\* C20 amended: once a DescribeImage for a path has succeeded, and as long as
\* the cache is not cleared, a later DescribeImage for the same path returns
\* the same description without calling the backend.
C20_HitAfterSuccess ==
  \A j, k \in 1..Len(vLog) :
    (/\ SamePathTwice(j, k)
     /\ vLog[j].err = NoErr
     /\ \A m \in j..k : vLog[m].op # "ClearCache") =>
      /\ ~vLog[k].called
      /\ vLog[k].err = NoErr
      /\ vLog[k].val = vLog[j].val

\* C20 witness: a.png is described by the backend, then served from the
\* cache under its absolute path
C20_Witness ==
  /\ Len(vLog) >= 2
  /\ vLog[1] = Described(<<"a.png">>, <<"a chart">>, NoErr, TRUE)
  /\ vLog[2] = Described(<<"/", "w", "/", "a.png">>, <<"a chart">>, NoErr, FALSE)
  /\ vCalls = <<<<"a.png">>>>

\* ------------------------------------------------------------- C21, C22
\* the reply as given holds "answer:" in any case of letters, or holds no "{"
MarkedOrBraceless(text) ==
  \/ Contains(ToLower(text), <<"answer", CL>>)
  \/ Index(text, LB) = -1

\* C21 as stated: for every input the terminal flag of the parsed reply is
\* true whenever no tool call was extracted and false whenever one was.
C21_FlagIffNoCall ==
  pPc = "parsed" =>
    /\ pReply.ToolCalls = << >> => pReply.IsFinish
    /\ pReply.ToolCalls # << >> => ~pReply.IsFinish

\* C21 amended: the terminal flag is false whenever a tool call was
\* extracted; when none was extracted it is true exactly when the content
\* holds "answer:" (in any case of letters) or holds no "{".
C21_FlagByMarkerOrNoBrace ==
  pPc = "parsed" =>
    /\ pReply.ToolCalls # << >> => ~pReply.IsFinish
    /\ pReply.ToolCalls = << >> =>
         (pReply.IsFinish <=> MarkedOrBraceless(pInput))

\* C21 witness: an object without a name after plain prose: no tool call,
\* and yet not terminal
C21_Witness ==
  /\ pPc = "parsed"
  /\ pBuilt.body.text = EmptyObj
  /\ pBuilt.pre = <<"I", SP, "need", SP, "to", SP, "check", CL, NL>>
  /\ pReply.ToolCalls = << >>
  /\ ~pReply.IsFinish

\* C22 as stated: a reply whose JSON cannot be decoded into a named tool call
\* gives no tool call, and the terminal flag is set only when the content
\* holds no "{": with a "{" and no tool call the reply is never terminal.
C22_BraceNeverTerminal ==
  (pPc = "parsed" /\ FirstObjectIsJunk(pBuilt)) =>
    /\ pReply.ToolCalls = << >>
    /\ pReply.IsFinish => Index(pInput, LB) = -1

\* C22 amended: such a reply gives no tool call, and the terminal flag is set
\* only when the content holds no "{" or holds "answer:" (in any case of
\* letters): with a "{", no tool call and no such marker it is not terminal.
C22_BraceTerminalOnlyMarked ==
  (pPc = "parsed" /\ FirstObjectIsJunk(pBuilt)) =>
    /\ pReply.ToolCalls = << >>
    /\ pReply.IsFinish =>
         (Index(pInput, LB) = -1 \/ Contains(ToLower(pInput), <<"answer", CL>>))
    /\ (Index(pInput, LB) # -1 /\ ~Contains(ToLower(pInput), <<"answer", CL>>))
         => ~pReply.IsFinish

\* C22 witness: "Answer: " before an object that is never closed: a "{", no
\* tool call, and terminal
C22_Witness ==
  /\ pPc = "parsed"
  /\ pBuilt.pre = <<"Answer", CL, SP>>
  /\ pBuilt.body.kind = "junk"
  /\ Index(pBuilt.body.text, LB) # -1
  /\ findMatchingBrace(pBuilt.body.text \o pBuilt.post) = -1
  /\ pReply.ToolCalls = << >>
  /\ pReply.IsFinish

\* ------------------------------------------------------------------ C23
\* a reply without tool call that is not terminal and holds a "{"
Degenerate(r) ==
  r.ToolCalls = << >> /\ ~r.IsFinish /\ Contains(r.Content, <<LB>>)

\* the assistant messages of the replies, in order
AsAssistant(rs) == [k \in 1..Len(rs) |-> Message("assistant", rs[k].Content)]

\* every reply of the turn so far is degenerate
AllDegenerate == \A k \in 1..Len(replies) : Degenerate(replies[k])

\* C23: in a turn whose replies are all without tool call, not terminal and
\* with a "{", Run appends each reply to the working list as an assistant
\* message, invokes no tool and appends only the user message to the history;
\* when every request was answered so, Run fails with the max-iterations
\* error after exactly iteration_bound requests.
C23_DegenerateExhausts ==
  ((InRun \/ Returned) /\ AllDegenerate) =>
    /\ \E u \in UserInputs :
         /\ messages = buildMessages(systemPrompt, entry, u) \o AsAssistant(replies)
         /\ history = Append(entry, Message("user", u))
    /\ toolLog = << >> /\ results = << >> /\ toolsDone = 0
    /\ Len(requests) <= maxIter
    /\ (Returned /\ Len(replies) = Len(requests)) =>
         /\ ret.err = MaxIterErr(maxIter)
         /\ ret.val = << >>
         /\ Len(requests) = maxIter

\* C23 witness: a bound of at least two, used up by degenerate replies
C23_Witness ==
  /\ Returned /\ AllDegenerate
  /\ maxIter >= 2
  /\ Len(replies) = maxIter /\ Len(requests) = maxIter
  /\ ret.err = MaxIterErr(maxIter)
  /\ Len(messages) = Len(entry) + 2 + maxIter

\* ------------------------------------------------------------------ C24
\* the result of a tool invocation as Run renders it: the text, or Error: ...
Rendered(e) == IF e.err # NoErr THEN <<"Error", CL, SP>> \o e.err ELSE e.text

\* C24: the tool message appended after a tool invocation carries the whole
\* result (or the whole Error: ... string), whatever its length; only the
\* copy shown to the operator is cut to 500 characters and ends in "...".
C24_FullResultToModel ==
  \A k \in 1..Len(results) :
    LET e == results[k]
        head == <<"Tool '">> \o e.Name \o <<"' returned:", NL>>
    IN  /\ Len(requests) >= e.iter + 2 =>
             /\ Last(requests[e.iter + 2]).Role = "tool"
             /\ Last(requests[e.iter + 2]).Content = head \o Rendered(e)
        /\ Len(Rendered(e)) <= ShownMax => e.shown = Rendered(e)
        /\ Len(Rendered(e)) > ShownMax =>
             /\ Len(e.shown) = ShownMax + 3
             /\ SubSeq(e.shown, 1, ShownMax) = SubSeq(Rendered(e), 1, ShownMax)
             /\ SubSeq(e.shown, ShownMax + 1, ShownMax + 3) = <<".", ".", ".">>

\* C24 witness: a result of more than 500 characters went to the model whole
\* and to the operator cut
C24_Witness ==
  /\ Len(results) >= 1 /\ Len(requests) >= results[1].iter + 2
  /\ Len(results[1].text) > ShownMax
  /\ Len(results[1].shown) = ShownMax + 3
  /\ Len(Last(requests[results[1].iter + 2]).Content) > Len(results[1].text)

\* ======================================================================
\* rag.Indexer.Index
\* ======================================================================
\* the most pages a wiki export holds
MaxPages == 2

\* line 149: batchSize := 10
BatchSize == 10

\* how many documents one page may give: none (its chunks are too short and
\* its images not described), one, or more than half a batch
PageDocs == {0, 1, 6}

\* a call on the loader, the store or the embedder, and whether it succeeded
Called(name, ok) == [call |-> name, ok |-> ok]

moreToEmbedOnce(done, total) == done < total /\ done = 0

\* line 150: i < len(allDocs)
moreToEmbed(done, total) == done < total

\* lines 151-154: the end of the batch that starts at done
batchEnd(done, total) ==
  IF done + BatchSize > total THEN total ELSE done + BatchSize

IndexInit ==
  /\ IdleBut("index")
  /\ xPc = "load"
  /\ xStore \in {"absent", "old"}
  /\ xOld = xStore
  /\ xPages = << >>
  /\ xPage = 0
  /\ xDocs = 0
  /\ xEmbedded = 0
  /\ xLog = << >>
  /\ xRet = NoErr

\* Index returns err
IndexReturns(err) ==
  /\ xPc' = "returned"
  /\ xRet' = err

\* lines 73-76: LoadAll fails
IdxLoadFails ==
  /\ xPc = "load"
  /\ xLog' = Append(xLog, Called("LoadAll", FALSE))
  /\ IndexReturns(<<"failed to load pages">>)
  /\ UNCHANGED <<xStore, xOld, xPages, xPage, xDocs, xEmbedded>>
  /\ UNCHANGED notIndex

\* line 73: LoadAll returns the pages
IdxLoaded ==
  /\ xPc = "load"
  /\ \E n \in 0..MaxPages : xPages' \in [1..n -> PageDocs]
  /\ xLog' = Append(xLog, Called("LoadAll", TRUE))
  /\ xPc' = "delete"
  /\ UNCHANGED <<xStore, xOld, xPage, xDocs, xEmbedded, xRet>>
  /\ UNCHANGED notIndex

\* lines 82-84: DeleteCollection fails (no answer, or a status other than
\* 200 and 404)
IdxDeleteFails ==
  /\ xPc = "delete"
  /\ xLog' = Append(xLog, Called("DeleteCollection", FALSE))
  /\ IndexReturns(<<"failed to delete collection">>)
  /\ UNCHANGED <<xStore, xOld, xPages, xPage, xDocs, xEmbedded>>
  /\ UNCHANGED notIndex

\* line 82: the collection is deleted (200), or was not there (404)
IdxDeleted ==
  /\ xPc = "delete"
  /\ xStore' = "absent"
  /\ xLog' = Append(xLog, Called("DeleteCollection", TRUE))
  /\ xPc' = "ensure"
  /\ UNCHANGED <<xOld, xPages, xPage, xDocs, xEmbedded, xRet>>
  /\ UNCHANGED notIndex

\* lines 85-87: EnsureCollection fails
IdxEnsureFails ==
  /\ xPc = "ensure"
  /\ xLog' = Append(xLog, Called("EnsureCollection", FALSE))
  /\ IndexReturns(<<"failed to create collection">>)
  /\ UNCHANGED <<xStore, xOld, xPages, xPage, xDocs, xEmbedded>>
  /\ UNCHANGED notIndex

\* line 85: EnsureCollection finds no collection and creates it
IdxCreated ==
  /\ xPc = "ensure" /\ xStore = "absent"
  /\ xStore' = "fresh"
  /\ xLog' = Append(xLog, Called("EnsureCollection", TRUE))
  /\ xPc' = "pages"
  /\ UNCHANGED <<xOld, xPages, xPage, xDocs, xEmbedded, xRet>>
  /\ UNCHANGED notIndex

\* lines 93-144: one page gives its documents
IdxPage ==
  /\ xPc = "pages" /\ xPage < Len(xPages)
  /\ xDocs' = xDocs + xPages[xPage + 1]
  /\ xPage' = xPage + 1
  /\ UNCHANGED <<xPc, xStore, xOld, xPages, xEmbedded, xLog, xRet>>
  /\ UNCHANGED notIndex

\* the loop over the pages ends
IdxPagesDone ==
  /\ xPc = "pages" /\ xPage = Len(xPages)
  /\ xPc' = "embed"
  /\ UNCHANGED <<xStore, xOld, xPages, xPage, xDocs, xEmbedded, xLog, xRet>>
  /\ UNCHANGED notIndex

\* lines 162-165: EmbedBatch fails
IdxEmbedFails ==
  /\ xPc = "embed" /\ moreToEmbed(xEmbedded, xDocs)
  /\ xLog' = Append(xLog, Called("EmbedBatch", FALSE))
  /\ IndexReturns(<<"failed to embed batch">>)
  /\ UNCHANGED <<xStore, xOld, xPages, xPage, xDocs, xEmbedded>>
  /\ UNCHANGED notIndex

\* lines 150-172: one batch gets its vectors
IdxEmbedded ==
  /\ xPc = "embed" /\ moreToEmbed(xEmbedded, xDocs)
  /\ xEmbedded' = batchEnd(xEmbedded, xDocs)
  /\ xLog' = Append(xLog, Called("EmbedBatch", TRUE))
  /\ UNCHANGED <<xPc, xStore, xOld, xPages, xPage, xDocs, xRet>>
  /\ UNCHANGED notIndex

\* the loop over the batches ends
IdxEmbedDone ==
  /\ xPc = "embed" /\ ~moreToEmbed(xEmbedded, xDocs)
  /\ xPc' = "upsert"
  /\ UNCHANGED <<xStore, xOld, xPages, xPage, xDocs, xEmbedded, xLog, xRet>>
  /\ UNCHANGED notIndex

\* lines 176-178: Upsert fails
IdxUpsertFails ==
  /\ xPc = "upsert" /\ xDocs > 0
  /\ xLog' = Append(xLog, Called("Upsert", FALSE))
  /\ IndexReturns(<<"failed to upsert documents">>)
  /\ UNCHANGED <<xStore, xOld, xPages, xPage, xDocs, xEmbedded>>
  /\ UNCHANGED notIndex

\* lines 176-181: the documents are stored; with no document Upsert sends
\* nothing and returns nil
IdxUpserted ==
  /\ xPc = "upsert"
  /\ xStore' = IF xDocs > 0 THEN "new" ELSE xStore
  /\ xLog' = Append(xLog, Called("Upsert", TRUE))
  /\ IndexReturns(NoErr)
  /\ UNCHANGED <<xOld, xPages, xPage, xDocs, xEmbedded>>
  /\ UNCHANGED notIndex

IndexNext ==
  \/ IdxLoadFails \/ IdxLoaded
  \/ IdxDeleteFails \/ IdxDeleted
  \/ IdxEnsureFails \/ IdxCreated
  \/ IdxPage \/ IdxPagesDone
  \/ IdxEmbedFails \/ IdxEmbedded \/ IdxEmbedDone
  \/ IdxUpsertFails \/ IdxUpserted

SpecIndex == IndexInit /\ [][IndexNext]_vars

\* ------------------------------------------------------------------ C25
\* where in the log the calls of one name lie
CallsOf(name) == {k \in 1..Len(xLog) : xLog[k].call = name}
Succeeded(name) == {k \in CallsOf(name) : xLog[k].ok}

\* C25: in one indexing run the pages are loaded before the collection is
\* reset; the collection is deleted and created anew before any document is
\* upserted; the upsert comes only after every batch was embedded; when the
\* loading fails the collection is left as it was, and when a batch fails to
\* embed nothing is upserted.
C25_LoadResetEmbedUpsert ==
  /\ \A d \in CallsOf("DeleteCollection") :
       \E l \in Succeeded("LoadAll") : l < d
  /\ \A u \in CallsOf("Upsert") :
       /\ \E d \in Succeeded("DeleteCollection") :
            \E c \in Succeeded("EnsureCollection") : d < c /\ c < u
       /\ \A e \in CallsOf("EmbedBatch") : e < u /\ xLog[e].ok
       /\ xEmbedded = xDocs
       /\ Cardinality(CallsOf("EmbedBatch")) = (xDocs + BatchSize - 1) \div BatchSize
  /\ CallsOf("LoadAll") # Succeeded("LoadAll") =>
       xStore = xOld /\ Len(xLog) = 1 /\ xRet # NoErr
  /\ CallsOf("EmbedBatch") # Succeeded("EmbedBatch") =>
       CallsOf("Upsert") = {} /\ xStore = "fresh" /\ xRet # NoErr
  /\ xStore = "new" => Succeeded("Upsert") # {}
  /\ Succeeded("DeleteCollection") = {} => xStore = xOld

\* C25 witness: an old collection replaced by more than one batch of documents
C25_Witness ==
  /\ xPc = "returned" /\ xRet = NoErr
  /\ xOld = "old" /\ xStore = "new"
  /\ xDocs > BatchSize
  /\ Cardinality(Succeeded("EmbedBatch")) = 2
  /\ xLog[Len(xLog)] = Called("Upsert", TRUE)

\* ======================================================================
\* rag.ChunkText, rag.splitSentences
\* ======================================================================
\* the longest content, and the largest maxChunkSize
MaxText == 5
MaxChunkSize == 3

\* the characters of a content: a letter, two sentence delimiters, a blank
TextChars == {"a", ".", "!", SP}

\* every content of at most n characters
RECURSIVE TextsUpTo(_)
TextsUpTo(n) ==
  IF n = 0 THEN {<< >>}
  ELSE LET shorter == TextsUpTo(n - 1)
       IN  shorter \cup {Append(t, c) : t \in {u \in shorter : Len(u) = n - 1},
                                        c \in TextChars}

\* [.!?]
IsDelim(c) == c \in {".", "!", "?"}

\* the first position from pos on where the run of delimiters (or of white
\* space) that holds pos ends: Len(text) + 1 when it reaches the end
RunEnd(text, pos, delims) ==
  CHOOSE j \in pos..(Len(text) + 1) :
    /\ \A k \in pos..(j - 1) : IF delims THEN IsDelim(text[k]) ELSE IsSpace(text[k])
    /\ j <= Len(text) => IF delims THEN ~IsDelim(text[j]) ELSE ~IsSpace(text[j])

\* regexp.MustCompile(`[.!?]+\s+`).Split(text, -1): the pieces between the
\* leftmost matches, from the piece that starts at beg, scanning from pos
RECURSIVE reSplit(_, _, _)
reSplit(text, beg, pos) ==
  IF pos > Len(text) THEN <<SubSeq(text, beg, Len(text))>>
  ELSE IF IsDelim(text[pos])
  THEN LET afterDelims == RunEnd(text, pos, TRUE)
       IN  IF afterDelims <= Len(text) /\ IsSpace(text[afterDelims])
           THEN LET afterBlanks == RunEnd(text, afterDelims, FALSE)
                IN  <<SubSeq(text, beg, pos - 1)>>
                      \o reSplit(text, afterBlanks, afterBlanks)
           ELSE reSplit(text, beg, afterDelims)
  ELSE reSplit(text, beg, pos + 1)

\* lines 267-274: the trimmed pieces that are not empty
RECURSIVE keepSentences(_)
keepSentences(parts) ==
  IF parts = << >> THEN << >>
  ELSE LET part == TrimSpace(Head(parts))
       IN  (IF part # << >> THEN <<part>> ELSE << >>) \o keepSentences(Tail(parts))

\* splitSentences(text)
splitSentences(text) ==
  keepSentences(IF text = << >> THEN <<text>> ELSE reSplit(text, 1, 1))

mustFlushLate(curLen, sentenceLen, maxChunkSize) ==
  curLen + sentenceLen > maxChunkSize + 1 /\ curLen > 0

\* line 246: the chunk at hand is emitted before the sentence is added
mustFlush(curLen, sentenceLen, maxChunkSize) ==
  curLen + sentenceLen > maxChunkSize /\ curLen > 0

\* lines 245-256: the sentences packed into chunks; cur is currentChunk
RECURSIVE packSentences(_, _, _, _)
packSentences(sentences, cur, chunks, maxChunkSize) ==
  IF sentences = << >>
  THEN IF Len(cur) > 0 THEN Append(chunks, TrimSpace(cur)) ELSE chunks
  ELSE LET sentence == Head(sentences)
           flush == mustFlush(Len(cur), Len(sentence), maxChunkSize)
       IN  packSentences(Tail(sentences),
                         (IF flush THEN << >> ELSE cur) \o sentence \o <<SP>>,
                         IF flush THEN Append(chunks, TrimSpace(cur)) ELSE chunks,
                         maxChunkSize)

\* ChunkText(content, maxChunkSize)
ChunkText(content, maxChunkSize) ==
  LET trimmed == TrimSpace(content)
  IN  IF trimmed = << >> THEN << >>
      ELSE IF Len(trimmed) <= maxChunkSize THEN <<trimmed>>
      ELSE packSentences(splitSentences(trimmed), << >>, << >>, maxChunkSize)

ChunkInit ==
  /\ IdleBut("fn")
  /\ fPc = "input"
  /\ fArg \in [fn : {"ChunkText"}, content : TextsUpTo(MaxText),
               maxChunkSize : 1..MaxChunkSize]
  /\ fRes = << >>

ChunkCall ==
  /\ fPc = "input"
  /\ fArg.fn = "ChunkText"
  /\ fPc' = "returned"
  /\ fRes' = ChunkText(fArg.content, fArg.maxChunkSize)
  /\ UNCHANGED fArg
  /\ UNCHANGED notFn

SpecChunk == ChunkInit /\ [][ChunkCall]_vars

\* ------------------------------------------------------------------ C26
Chunked == fPc = "returned" /\ fArg.fn = "ChunkText"

\* a chunk that is not empty and neither starts nor ends with white space
TrimmedChunk(c) == c # << >> /\ ~IsSpace(c[1]) /\ ~IsSpace(c[Len(c)])

\* content of the budget's size at most comes back as one chunk, and blank
\* content as none
SmallAndBlank ==
  /\ (Len(fArg.content) <= fArg.maxChunkSize /\ TrimSpace(fArg.content) # << >>)
       => fRes = <<TrimSpace(fArg.content)>>
  /\ TrimSpace(fArg.content) = << >> => fRes = << >>

\* no delimiter followed by white space lies inside c
OneSentence(c) ==
  \A k \in 1..(Len(c) - 1) : ~(IsDelim(c[k]) /\ IsSpace(c[k + 1]))

Registered == [k \in 1..Len(toolList) |-> [name |-> toolList[k]]]

\* C27: every tool handed to the agent stays dispatchable under its own
\* name: the names given to distinct --mcp specs are pairwise distinct and
\* are none of ssh, shell, wiki, so that New's name-to-tool map holds as many
\* tools as descriptors are advertised.
C27_EveryToolDispatchable ==
  /\ \A j, k \in 1..Len(mNames) :
       mFlags.mcp[j].text # mFlags.mcp[k].text => mNames[j].name # mNames[k].name
  /\ \A k \in 1..Len(mNames) :
       mNames[k].name \notin {<<"ssh">>, <<"shell">>, <<"wiki">>}
  /\ mPc = "repl" =>
       Len(NewToolDefs(Registered)) = Cardinality(DOMAIN NewTools(Registered))

\* ======================================================================
\* tools.NewMCPTool
\* ======================================================================
\* the most sub-tools a server lists
MaxSubTools == 3

\* the executables given as command
Commands == {<<"server">>, <<"other">>}

\* the mcp.Tool values a server may list: two of them share a name
SubTools == [Name : {<<"read">>, <<"list">>}, Description : {"d1", "d2"}]

\* listResult.Tools: every list of at most n sub-tools
RECURSIVE ToolListsUpTo(_)
ToolListsUpTo(n) ==
  IF n = 0 THEN {<< >>}
  ELSE LET shorter == ToolListsUpTo(n - 1)
       IN  shorter \cup {Append(l, t) : l \in {u \in shorter : Len(u) = n - 1},
                                        t \in SubTools}

closeClientNone(conn) == conn

\* c.Close(): the client is closed and its child process ended
closeClient(conn) == "closed"

\* lines 343-346: toolMap[t.Name] = t for the first k listed tools
RECURSIVE toolMapUpTo(_, _)
toolMapUpTo(listed, k) ==
  IF k = 0 THEN << >>
  ELSE MapWith(toolMapUpTo(listed, k - 1), listed[k].Name, listed[k])

\* lines 348-353: the *MCPTool returned
NewTool(command, listed) ==
  [client |-> "c", serverCmd |-> command, tools |-> listed,
   toolMap |-> toolMapUpTo(listed, Len(listed))]

\* NewMCPTool returns
NewReturns(tool, err) ==
  /\ nPc' = "returned"
  /\ nRet' = [tool |-> tool, err |-> err]

\* NewMCPTool is entered
NewInit ==
  /\ IdleBut("conn")
  /\ nPc = "start"
  /\ nCommand \in Commands
  /\ nClient = "none"
  /\ nLog = << >>
  /\ nRet = << >>

\* lines 319-322: the server process does not start
NewStartFails ==
  /\ nPc = "start"
  /\ NewReturns(<< >>, "failed to start MCP server")
  /\ UNCHANGED <<nCommand, nClient, nLog>>
  /\ UNCHANGED notConn

\* line 319: the server process runs, c is its client
NewStarted ==
  /\ nPc = "start"
  /\ nPc' = "init"
  /\ nClient' = "open"
  /\ UNCHANGED <<nCommand, nLog, nRet>>
  /\ UNCHANGED notConn

\* lines 331-335: the handshake fails
NewInitFails ==
  /\ nPc = "init"
  /\ nLog' = nLog \o <<"Initialize", "Close">>
  /\ nClient' = closeClient(nClient)
  /\ NewReturns(<< >>, "MCP initialize failed")
  /\ UNCHANGED nCommand
  /\ UNCHANGED notConn

\* line 331: the handshake succeeds
NewInitialized ==
  /\ nPc = "init"
  /\ nLog' = Append(nLog, "Initialize")
  /\ nPc' = "list"
  /\ UNCHANGED <<nCommand, nClient, nRet>>
  /\ UNCHANGED notConn

\* lines 337-341: ListTools fails
NewListFails ==
  /\ nPc = "list"
  /\ nLog' = nLog \o <<"ListTools", "Close">>
  /\ nClient' = closeClient(nClient)
  /\ NewReturns(<< >>, "MCP list tools failed")
  /\ UNCHANGED nCommand
  /\ UNCHANGED notConn

\* lines 337-355: the server lists its tools, the MCPTool is returned
NewListed ==
  /\ nPc = "list"
  /\ \E listed \in ToolListsUpTo(MaxSubTools) :
       NewReturns(<<NewTool(nCommand, listed)>>, "nil")
  /\ nLog' = Append(nLog, "ListTools")
  /\ UNCHANGED <<nCommand, nClient>>
  /\ UNCHANGED notConn

NewNext ==
  \/ NewStartFails \/ NewStarted
  \/ NewInitFails \/ NewInitialized
  \/ NewListFails \/ NewListed

SpecConn == NewInit /\ [][NewNext]_vars

\* the names of a list of sub-tools
ListedNames(listed) == {listed[k].Name : k \in 1..Len(listed)}

\* C30: when the handshake or ListTools fails in NewMCPTool, the client (and
\* its child process) is closed before the error is returned, Close being the
\* last call made on it, and no tool is returned; a tool is returned only
\* after both steps succeeded, with its client open, and its sub-tool list
\* and its lookup table hold the same set of names.
C30_ClosedOnFailure ==
  /\ nPc # "returned" => nRet = << >>
  /\ nPc = "returned" =>
       /\ (nRet.tool = << >>) = (nRet.err # "nil")
       /\ nRet.err \in {"MCP initialize failed", "MCP list tools failed"} =>
            /\ nClient = "closed"
            /\ nLog[Len(nLog)] = "Close"
       /\ nRet.tool # << >> =>
            /\ nLog = <<"Initialize", "ListTools">>
            /\ nClient = "open"
            /\ DOMAIN nRet.tool[1].toolMap = ListedNames(nRet.tool[1].tools)

\* C30 witness: the handshake succeeded, ListTools failed, the client was
\* closed and an error returned
C30_Witness ==
  /\ nPc = "returned"
  /\ nRet.err = "MCP list tools failed"
  /\ nRet.tool = << >>
  /\ nLog = <<"Initialize", "ListTools", "Close">>
  /\ nClient = "closed"

====
